---- MODULE Spec2Model ----
(***************************************************************************)
(* Model of the sonnenbankerl backend core: the exposure resolver          *)
(* (app/services/exposure.py), the forecast cache readers                  *)
(* (app/services/weather_openmeteo.py), the geometric store and catalog    *)
(* queries (app/db/queries.py) and the sunshine gate                       *)
(* (app/services/weather.py).                                              *)
(*                                                                         *)
(* Time is counted in whole minutes since an arbitrary hour boundary       *)
(* (minute 0).  Python's None, SQL NULL and "no row" are the empty         *)
(* sequence <<>>; a present value v is <<v>>.  A call that raises yields   *)
(* [raised |-> TRUE, val |-> <<>>].                                        *)
(***************************************************************************)
EXTENDS Integers, Sequences, FiniteSets, TLC

VARIABLES
    now,                  \* datetime.now(timezone.utc), in minutes
    now_second,           \* the seconds of datetime.now(timezone.utc) past that minute
    exposure,             \* geometric store: exposure JOIN timestamps, by bench and hour
    weather_cache_table,  \* table weather_cache: (region_id, forecast hour) -> row
    weather_cache,        \* weather.py _weather_cache (sunshine gate snapshot)
    cache_time,           \* weather.py _cache_time
    pc,                   \* per caller of get_current_weather: idle or awaiting the fetch
    gate_ret,             \* what the last completed get_current_weather call returned
    last,                 \* the last resolver request and its response
    jobs,                 \* running instances of scheduler.py weather_update_job
    fired,                \* how often the interval trigger has fired
    rlog                  \* what the last step of the refresher did

vars == <<now, now_second, exposure, weather_cache_table, weather_cache,
          cache_time, pc, gate_ret, last, jobs, fired, rlog>>

\* The state of the refresher, and the state it leaves alone.
refresher_vars == <<jobs, fired, rlog>>
request_vars == <<exposure, weather_cache, cache_time, pc, gate_ret, last>>

-----------------------------------------------------------------------------
(* Optional values and call results *)

None == <<>>
Some(v) == <<v>>
Val(o) == o[1]

Ok(v) == [raised |-> FALSE, val |-> v]
Raise == [raised |-> TRUE, val |-> None]

-----------------------------------------------------------------------------
(* Bounds of the model *)

\* Hours 0..MaxTick carry every combination of geometric and forecast data.
MaxTick == 2
\* The scenario family: exposed on [0, k) hours, shaded after, for k up to this.
ScenarioHours == 6
\* Callers of the sunshine gate that may be in flight together.
MaxCallers == 2
\* The clock of the gate specification stops here (minutes).
MaxClock == 20
\* Instances of the refresh job the model can hold at once.
MaxJobs == 2
\* The interval trigger fires at most this often.
MaxFirings == 2

-----------------------------------------------------------------------------
(* Program constants *)

CLOUD_COVER_THRESHOLD == 20
\* timedelta(hours=48) of the forward scan
SEARCH_HOURS == 48
\* settings.weather_cache_ttl, seconds
weather_cache_ttl == 600

Hours(n) == n * 60

-----------------------------------------------------------------------------
(* The catalog (table benches).  Coordinates are in 1/100 degree.          *)

BenchIds == {1, 2}
\* ids a request may carry; 3 is not in the catalog
RequestIds == {1, 2, 3}

benches(id) ==
    IF id = 1 THEN [lat |-> 4707, lon |-> 1543]
              ELSE [lat |-> 4712, lon |-> 1551]

\* Python int(): truncation toward zero
PyInt(num, den) ==
    IF num >= 0 THEN num \div den ELSE -((-num) \div den)

\* f"graz_{int(lat * 10)}_{int(lon * 10)}"
get_region_id(lat, lon) == <<PyInt(lat * 10, 100), PyInt(lon * 10, 100)>>

RegionIds == {get_region_id(benches(b).lat, benches(b).lon) : b \in BenchIds}

-----------------------------------------------------------------------------
(* Time grids *)

\* Variant: the hour the datetime lies in, whatever the minute.
round_to_hour_down(dt) == dt - (dt % 60)

\* exposure.py round_to_hour: nearest hour, rounding up from minute 30
round_to_hour(dt) ==
    LET d == IF dt % 60 >= 30 THEN dt + Hours(1) ELSE dt
    IN  d - (d % 60)

\* The step of round_to_10min, in minutes.
GridStepMinutes == 10

\* dt.replace(second=0, microsecond=0, minute=(dt.minute // 10) * 10); no
\* caller in the application.
round_to_10min(dt) == dt - (dt % GridStepMinutes)

\* dt.replace(minute=0, second=0, microsecond=0)
floor_to_hour(dt) == dt - (dt % 60)

\* Hours for which the stores may hold rows; every other timestamp has none.
LastHour == IF MaxTick > ScenarioHours + 1 THEN MaxTick ELSE ScenarioHours + 1
DataHours == 0 .. LastHour

-----------------------------------------------------------------------------
(* Injected lookup failures: which database call of a request raises.      *)
(*   catalog  : get_bench_by_id(bench)                                     *)
(*   geo      : get_current_exposure(bench, tick)                          *)
(*   batch    : get_bench_status_batch                                     *)
(*   forecast : every read of weather_cache                                *)

NoFail == [kind |-> "none", bench |-> 0, tick |-> 0]

\* The record of the last resolver request, before any request.
NoRequest == [op |-> "none", ids |-> <<>>, skip |-> FALSE, fail |-> NoFail,
              out |-> <<>>]

\* Slots for instances of the refresh job.
Slots == 1 .. MaxJobs

\* A slot without a running instance.
IdleJob == [pc |-> "idle", regions |-> <<>>, i |-> 0, results |-> <<>>]

\* The record of the refresher's last step: the step, the job slot, and for
\* a region update its region id, parsed forecasts and stored count, for a
\* cleanup the count it returned and whether the database failed, for a
\* manual trigger the response status, the regions the call attempted and
\* whether it purged.
RLog(step, slot, region_id, forecasts, stored, deleted, failed, status, attempted, purged) ==
    [step |-> step, slot |-> slot, region_id |-> region_id,
     forecasts |-> forecasts, stored |-> stored, deleted |-> deleted,
     failed |-> failed, status |-> status, attempted |-> attempted,
     purged |-> purged]

StepLog(step, slot) == RLog(step, slot, <<>>, <<>>, 0, 0, FALSE, "", <<>>, FALSE)

NoLog == StepLog("none", 0)

RefresherIdle ==
    /\ jobs = [j \in Slots |-> IdleJob]
    /\ fired = 0
    /\ rlog = NoLog

-----------------------------------------------------------------------------
(* app/db/queries.py *)

get_bench_by_id(bench_id, fail) ==
    IF fail.kind = "catalog" /\ fail.bench = bench_id THEN Raise
    ELSE IF bench_id \in BenchIds THEN Ok(Some(benches(bench_id)))
    ELSE Ok(None)

\* The row of exposure JOIN timestamps for (bench, ts), if any.
ExposureRow(bench_id, ts) ==
    IF bench_id \in BenchIds /\ ts % 60 = 0
       /\ (ts \div 60) \in DOMAIN exposure[bench_id]
    THEN exposure[bench_id][ts \div 60]
    ELSE None

\* Variant: a timestamp of the data window without a row for the bench read
\* as "not exposed".
get_current_exposure_norow_false(bench_id, current_time, fail) ==
    IF fail.kind = "geo" /\ fail.bench = bench_id /\ fail.tick = current_time
    THEN Raise
    ELSE IF /\ ExposureRow(bench_id, current_time) = None
            /\ current_time >= 0 /\ current_time <= Hours(LastHour)
         THEN Ok(Some(FALSE))
         ELSE Ok(ExposureRow(bench_id, current_time))

\* Variant: a database error answered as "no row".
get_current_exposure_swallow(bench_id, current_time, fail) ==
    Ok(ExposureRow(bench_id, current_time))

get_current_exposure(bench_id, current_time, fail) ==
    IF fail.kind = "geo" /\ fail.bench = bench_id /\ fail.tick = current_time
    THEN Raise
    ELSE Ok(ExposureRow(bench_id, current_time))

\* Rows come back in request order, one per requested id that is in benches
\* (JOIN benches), exposed NULL when exposure has no row (LEFT JOIN).  The
\* column next_change_ts is computed by the query and read by no caller.
InCatalog(bench_id) == bench_id \in BenchIds

\* Variant: exposed coalesced to FALSE where exposure has no row.
get_bench_status_batch_coalesce(bench_ids, current_time, fail) ==
    IF bench_ids = <<>> THEN Ok(<<>>)
    ELSE IF fail.kind = "batch" THEN Raise
    ELSE LET ids == SelectSeq(bench_ids, InCatalog)
         IN  Ok([i \in 1 .. Len(ids) |->
                    [bench_id |-> ids[i],
                     exposed |-> IF ExposureRow(ids[i], current_time) = None
                                 THEN Some(FALSE)
                                 ELSE ExposureRow(ids[i], current_time)]])

get_bench_status_batch(bench_ids, current_time, fail) ==
    IF bench_ids = <<>> THEN Ok(<<>>)
    ELSE IF fail.kind = "batch" THEN Raise
    ELSE LET ids == SelectSeq(bench_ids, InCatalog)
         IN  Ok([i \in 1 .. Len(ids) |->
                    [bench_id |-> ids[i],
                     exposed |-> ExposureRow(ids[i], current_time)]])

-----------------------------------------------------------------------------
(* app/services/weather_openmeteo.py: readers of weather_cache *)

\* The row of weather_cache for (region_id, hour), if any.
ForecastRow(region_id, target_hour) ==
    IF region_id \in DOMAIN weather_cache_table /\ target_hour % 60 = 0
       /\ (target_hour \div 60) \in DOMAIN weather_cache_table[region_id]
    THEN weather_cache_table[region_id][target_hour \div 60]
    ELSE None

\* A database error inside the try block is logged and None is returned
\* (the "forecast" failure); the dead read of _is_cache_valid is left out.
get_cloud_cover_at_time(lat, lon, target_time, fail) ==
    LET region_id == get_region_id(lat, lon)
        target_hour == floor_to_hour(target_time)
        row == ForecastRow(region_id, target_hour)
    IN  IF fail.kind = "forecast" THEN None
        ELSE IF row # None THEN Val(row).cloud_cover_percent
        ELSE None

\* Variant: a cloud cover equal to the threshold counted as sunny.
is_sunny_at_time_le(lat, lon, target_time, fail) ==
    LET cloud_cover == get_cloud_cover_at_time(lat, lon, target_time, fail)
    IN  IF cloud_cover = None THEN None
        ELSE Some(Val(cloud_cover) <= CLOUD_COVER_THRESHOLD)

is_sunny_at_time(lat, lon, target_time, fail) ==
    LET cloud_cover == get_cloud_cover_at_time(lat, lon, target_time, fail)
    IN  IF cloud_cover = None THEN None
        ELSE Some(Val(cloud_cover) < CLOUD_COVER_THRESHOLD)

\* Hours for which the region holds a row.
RegionHours(region_id) ==
    IF region_id \in DOMAIN weather_cache_table
    THEN {h \in DOMAIN weather_cache_table[region_id] :
             weather_cache_table[region_id][h] # None}
    ELSE {}

\* Variant: a row at from_time itself taken into the window.
get_next_sunny_time_from(lat, lon, from_time, max_hours, fail) ==
    LET region_id == get_region_id(lat, lon)
        end_time == from_time + Hours(max_hours)
        rows == {h \in RegionHours(region_id) :
                   LET cloud == Val(ForecastRow(region_id, Hours(h))).cloud_cover_percent
                   IN  /\ Hours(h) * 60 >= from_time * 60 + now_second
                       /\ Hours(h) * 60 < end_time * 60 + now_second
                       /\ cloud # None
                       /\ Val(cloud) < CLOUD_COVER_THRESHOLD}
    IN  IF fail.kind = "forecast" THEN None
        ELSE IF rows # {}
        THEN Some(Hours(CHOOSE h \in rows : \A g \in rows : h <= g))
        ELSE None

\* from_time is the caller's datetime.now(): from_time minutes and now_second
\* seconds.  WHERE forecast_time > $2 AND forecast_time < $3 AND
\* cloud_cover_percent < $4 (false for a NULL cover) ORDER BY forecast_time
\* LIMIT 1; a database error is logged and None is returned.
get_next_sunny_time(lat, lon, from_time, max_hours, fail) ==
    LET region_id == get_region_id(lat, lon)
        end_time == from_time + Hours(max_hours)
        rows == {h \in RegionHours(region_id) :
                   LET cloud == Val(ForecastRow(region_id, Hours(h))).cloud_cover_percent
                   IN  /\ Hours(h) * 60 > from_time * 60 + now_second
                       /\ Hours(h) * 60 < end_time * 60 + now_second
                       /\ cloud # None
                       /\ Val(cloud) < CLOUD_COVER_THRESHOLD}
    IN  IF fail.kind = "forecast" THEN None
        ELSE IF rows # {}
        THEN Some(Hours(CHOOSE h \in rows : \A g \in rows : h <= g))
        ELSE None

-----------------------------------------------------------------------------
(* app/services/exposure.py *)

\* Variant: the scan ending at the first tick without geometric data.
RECURSIVE ScanLoop_stop_at_gap(_, _, _, _, _, _, _, _)
ScanLoop_stop_at_gap(bench_id, lat, lon, check_time, search_end, target_status, candidate_times, fail) ==
    IF ~(check_time < search_end)
    THEN IF candidate_times # <<>> THEN Ok(Some(candidate_times[1])) ELSE Ok(None)
    ELSE
      LET clear_sky_exposed == get_current_exposure(bench_id, check_time, fail)
          next(cands) == ScanLoop_stop_at_gap(bench_id, lat, lon,
                                              check_time + Hours(1), search_end,
                                              target_status, cands, fail)
      IN
      IF clear_sky_exposed.raised THEN Raise
      ELSE IF clear_sky_exposed.val = None
      THEN IF candidate_times # <<>> THEN Ok(Some(candidate_times[1])) ELSE Ok(None)
      ELSE
        LET exposed == Val(clear_sky_exposed.val)
            is_weather_sunny == is_sunny_at_time(lat, lon, check_time, fail)
            is_effectively_sunny == (is_weather_sunny = Some(TRUE)) /\ exposed
        IN
        IF target_status
        THEN IF is_effectively_sunny THEN Ok(Some(check_time))
             ELSE IF is_weather_sunny = None /\ ~exposed
                  THEN next(Append(candidate_times, check_time))
                  ELSE next(candidate_times)
        ELSE IF ~is_effectively_sunny THEN Ok(Some(check_time))
             ELSE IF is_weather_sunny = None /\ exposed
                  THEN next(Append(candidate_times, check_time))
                  ELSE next(candidate_times)

\* The while loop of get_next_sun_change_with_weather, from check_time on.
RECURSIVE ScanLoop(_, _, _, _, _, _, _, _)
ScanLoop(bench_id, lat, lon, check_time, search_end, target_status, candidate_times, fail) ==
    IF ~(check_time < search_end)
    THEN IF candidate_times # <<>> THEN Ok(Some(candidate_times[1])) ELSE Ok(None)
    ELSE
      LET clear_sky_exposed == get_current_exposure(bench_id, check_time, fail)
          next(cands) == ScanLoop(bench_id, lat, lon, check_time + Hours(1),
                                  search_end, target_status, cands, fail)
      IN
      IF clear_sky_exposed.raised THEN Raise
      ELSE IF clear_sky_exposed.val = None THEN next(candidate_times)
      ELSE
        LET exposed == Val(clear_sky_exposed.val)
            is_weather_sunny == is_sunny_at_time(lat, lon, check_time, fail)
            is_effectively_sunny == (is_weather_sunny = Some(TRUE)) /\ exposed
        IN
        IF target_status
        THEN IF is_effectively_sunny THEN Ok(Some(check_time))
             ELSE IF is_weather_sunny = None /\ ~exposed
                  THEN next(Append(candidate_times, check_time))
                  ELSE next(candidate_times)
        ELSE IF ~is_effectively_sunny THEN Ok(Some(check_time))
             ELSE IF is_weather_sunny = None /\ exposed
                  THEN next(Append(candidate_times, check_time))
                  ELSE next(candidate_times)

\* Variant: a search window of 49 hours.
search_end_minute_49(t_now) ==
    t_now + Hours(SEARCH_HOURS + 1) + (IF now_second > 0 THEN 1 ELSE 0)

\* now + timedelta(hours=48) as a bound on whole-minute timestamps: the first
\* whole minute that is not before it (now carries now_second seconds).
search_end_minute(t_now) ==
    t_now + Hours(SEARCH_HOURS) + (IF now_second > 0 THEN 1 ELSE 0)

\* Variant: the scan starting two hours after the current tick.
get_next_sun_change_skip_first(bench_id, lat, lon, current_time, current_is_sunny, t_now, fail) ==
    ScanLoop(bench_id, lat, lon, floor_to_hour(current_time) + Hours(2),
             search_end_minute(t_now), ~current_is_sunny, <<>>, fail)

\* t_now is the datetime.now() read inside the function.
get_next_sun_change_with_weather(bench_id, lat, lon, current_time, current_is_sunny, t_now, fail) ==
    LET search_end == search_end_minute(t_now)
        target_status == ~current_is_sunny
        rounded_time == floor_to_hour(current_time)
        check_time == rounded_time + Hours(1)
    IN  ScanLoop(bench_id, lat, lon, check_time, search_end, target_status,
                 <<>>, fail)

\* Variant: the difference rounded up to the next whole minute.
int_minutes_ceil(next_change, t_now) ==
    ((next_change - t_now) * 60 - now_second + 59) \div 60

\* int((next_change - now).total_seconds() / 60): truncation towards zero.
int_minutes(next_change, t_now) ==
    PyInt((next_change - t_now) * 60 - now_second, 60)

Triple(status, changes_at, remaining_minutes) ==
    [status |-> status, changes_at |-> changes_at,
     remaining_minutes |-> remaining_minutes]

Unknown == Triple("unknown", None, None)

\* skip_weather_check is a parameter the body never reads.
get_bench_sun_status(bench_id, skip_weather_check, t_now, fail) ==
    LET rounded_time == round_to_hour(t_now)
        bench == get_bench_by_id(bench_id, fail)
    IN
    IF bench.raised THEN Unknown
    ELSE IF bench.val = None THEN Unknown
    ELSE
      LET lat == Val(bench.val).lat
          lon == Val(bench.val).lon
          clear_sky_exposed == get_current_exposure(bench_id, rounded_time, fail)
      IN
      IF clear_sky_exposed.raised THEN Unknown
      ELSE IF clear_sky_exposed.val = None THEN Unknown
      ELSE
        LET exposed == Val(clear_sky_exposed.val)
            is_weather_sunny == is_sunny_at_time(lat, lon, rounded_time, fail)
            is_effectively_sunny == (is_weather_sunny = Some(TRUE)) /\ exposed
            effective_status == IF is_effectively_sunny THEN "sunny" ELSE "shady"
            next_change == get_next_sun_change_with_weather(
                               bench_id, lat, lon, rounded_time,
                               is_effectively_sunny, t_now, fail)
        IN
        IF next_change.raised THEN Unknown
        ELSE IF next_change.val # None
        THEN LET remaining_minutes == int_minutes(Val(next_change.val), t_now)
             IN  IF remaining_minutes < 0
                 THEN Triple(effective_status, next_change.val, None)
                 ELSE Triple(effective_status, next_change.val,
                             Some(remaining_minutes))
        ELSE Triple(effective_status, None, None)

\* result[k] = v on a dict
DictSet(result, k, v) == (k :> v) @@ result

SeqRange(s) == {s[i] : i \in 1 .. Len(s)}

\* The for loop over batch_results, from row i on; Raise when a call raises.
RECURSIVE BatchLoop(_, _, _, _, _, _)
BatchLoop(batch_results, i, result, rounded_time, t_now, fail) ==
    IF i > Len(batch_results) THEN Ok(result)
    ELSE
      LET bench_id == batch_results[i].bench_id
          clear_sky_exposed == batch_results[i].exposed
          next(res) == BatchLoop(batch_results, i + 1, res, rounded_time,
                                 t_now, fail)
      IN
      IF clear_sky_exposed = None
      THEN next(DictSet(result, bench_id, Unknown))
      ELSE
        LET bench == get_bench_by_id(bench_id, fail)
        IN
        IF bench.raised THEN Raise
        ELSE IF bench.val = None
        THEN next(DictSet(result, bench_id, Unknown))
        ELSE
          LET lat == Val(bench.val).lat
              lon == Val(bench.val).lon
              exposed == Val(clear_sky_exposed)
              is_weather_sunny == is_sunny_at_time(lat, lon, rounded_time, fail)
              is_effectively_sunny == (is_weather_sunny = Some(TRUE)) /\ exposed
              effective_status == IF is_effectively_sunny THEN "sunny" ELSE "shady"
              next_change == get_next_sun_change_with_weather(
                                 bench_id, lat, lon, rounded_time,
                                 is_effectively_sunny, t_now, fail)
          IN
          IF next_change.raised THEN Raise
          ELSE IF next_change.val # None
          THEN next(DictSet(result, bench_id,
                            Triple(effective_status, next_change.val,
                                   Some(int_minutes(Val(next_change.val),
                                                    t_now)))))
          ELSE next(DictSet(result, bench_id,
                            Triple(effective_status, None, None)))

\* Variant: without the loops that fill in the ids the rows left out.
get_bench_sun_status_batch_rows(bench_ids, skip_weather_check, t_now, fail) ==
    LET rounded_time == round_to_hour(t_now)
        batch_results == get_bench_status_batch(bench_ids, rounded_time, fail)
        looped == IF batch_results.raised THEN Raise
                  ELSE BatchLoop(batch_results.val, 1, <<>>, rounded_time,
                                 t_now, fail)
    IN  IF looped.raised THEN <<>> ELSE looped.val

\* skip_weather_check is a parameter the body never reads.
get_bench_sun_status_batch(bench_ids, skip_weather_check, t_now, fail) ==
    LET rounded_time == round_to_hour(t_now)
        ids == SeqRange(bench_ids)
        batch_results == get_bench_status_batch(bench_ids, rounded_time, fail)
        looped == IF batch_results.raised THEN Raise
                  ELSE BatchLoop(batch_results.val, 1, <<>>, rounded_time,
                                 t_now, fail)
    IN
    IF looped.raised
    THEN [bench_id \in ids |-> Unknown]
    ELSE [bench_id \in ids |->
             IF bench_id \in DOMAIN looped.val THEN looped.val[bench_id]
             ELSE Unknown]

-----------------------------------------------------------------------------
(* app/services/exposure.py: the database round trips of a batch *)

\* The calls of get_current_exposure the while loop makes from check_time
\* on: one per tick, until a tick returns or raises or the window ends.
RECURSIVE ScanQueries(_, _, _, _, _, _, _)
ScanQueries(bench_id, lat, lon, check_time, search_end, target_status, fail) ==
    IF ~(check_time < search_end) THEN 0
    ELSE
      LET clear_sky_exposed == get_current_exposure(bench_id, check_time, fail)
          rest == ScanQueries(bench_id, lat, lon, check_time + Hours(1),
                              search_end, target_status, fail)
      IN
      IF clear_sky_exposed.raised THEN 1
      ELSE IF clear_sky_exposed.val = None THEN 1 + rest
      ELSE
        LET exposed == Val(clear_sky_exposed.val)
            is_weather_sunny == is_sunny_at_time(lat, lon, check_time, fail)
            is_effectively_sunny == (is_weather_sunny = Some(TRUE)) /\ exposed
        IN  IF is_effectively_sunny = target_status THEN 1 ELSE 1 + rest

\* Round trips counted per store: the batch query, get_bench_by_id,
\* get_current_exposure.
Trips(batch, catalog, geo) == [batch |-> batch, catalog |-> catalog, geo |-> geo]

\* The round trips of the for loop over batch_results, from row i on.
RECURSIVE BatchLoopTrips(_, _, _, _, _)
BatchLoopTrips(batch_results, i, rounded_time, t_now, fail) ==
    IF i > Len(batch_results) THEN Trips(0, 0, 0)
    ELSE
      LET bench_id == batch_results[i].bench_id
          clear_sky_exposed == batch_results[i].exposed
          rest == BatchLoopTrips(batch_results, i + 1, rounded_time, t_now, fail)
      IN
      IF clear_sky_exposed = None THEN rest
      ELSE
        LET bench == get_bench_by_id(bench_id, fail)
        IN
        IF bench.raised THEN Trips(0, 1, 0)
        ELSE IF bench.val = None THEN Trips(0, 1 + rest.catalog, rest.geo)
        ELSE
          LET lat == Val(bench.val).lat
              lon == Val(bench.val).lon
              exposed == Val(clear_sky_exposed)
              is_weather_sunny == is_sunny_at_time(lat, lon, rounded_time, fail)
              is_effectively_sunny == (is_weather_sunny = Some(TRUE)) /\ exposed
              next_change == get_next_sun_change_with_weather(
                                 bench_id, lat, lon, rounded_time,
                                 is_effectively_sunny, t_now, fail)
              scanned == ScanQueries(bench_id, lat, lon,
                                     floor_to_hour(rounded_time) + Hours(1),
                                     search_end_minute(t_now),
                                     ~is_effectively_sunny, fail)
          IN  IF next_change.raised THEN Trips(0, 1, scanned)
              ELSE Trips(0, 1 + rest.catalog, scanned + rest.geo)

\* The round trips of one call of get_bench_sun_status_batch.
BatchTrips(bench_ids, t_now, fail) ==
    LET rounded_time == round_to_hour(t_now)
        batch_results == get_bench_status_batch(bench_ids, rounded_time, fail)
    IN  IF bench_ids = <<>> THEN Trips(0, 0, 0)
        ELSE IF batch_results.raised THEN Trips(1, 0, 0)
        ELSE LET looped == BatchLoopTrips(batch_results.val, 1, rounded_time,
                                          t_now, fail)
             IN  Trips(1, looped.catalog, looped.geo)

-----------------------------------------------------------------------------
(* app/services/weather.py: the sunshine gate *)

Callers == 1 .. MaxCallers

\* What the station request can come back with: a timeout, a status code,
\* and for a 200 the decoded payload (features present or not, the SO data).
\* A reading of the SO data is a JSON number, held in tenths of a second
\* (5 is 0.5 s, 3000 is 300 s), or null.
StationResponse(timeout, status, features, so_data) ==
    [timeout |-> timeout, status |-> status, features |-> features,
     so_data |-> so_data]

StationResponses ==
    {StationResponse(TRUE, 0, FALSE, <<>>),
     StationResponse(FALSE, 500, FALSE, <<>>),
     StationResponse(FALSE, 200, FALSE, <<>>),
     StationResponse(FALSE, 200, TRUE, <<>>),
     StationResponse(FALSE, 200, TRUE, <<None>>),
     StationResponse(FALSE, 200, TRUE, <<Some(0)>>),
     StationResponse(FALSE, 200, TRUE, <<Some(5)>>),
     StationResponse(FALSE, 200, TRUE, <<Some(3000)>>)}

WeatherStatus(is_sunny, sunshine_seconds, cached_at) ==
    [is_sunny |-> is_sunny, sunshine_seconds |-> sunshine_seconds,
     cached_at |-> cached_at]

\* Variant: zero seconds of sunshine counted as sunny.
fetch_weather_from_api_ge(resp, t) ==
    IF resp.timeout THEN Raise
    ELSE IF resp.status # 200 THEN Raise
    ELSE IF ~resp.features THEN Raise
    ELSE IF resp.so_data = <<>> THEN Raise
    ELSE LET sunshine_seconds == IF resp.so_data[1] # None
                                 THEN PyInt(Val(resp.so_data[1]), 10) ELSE 0
             is_sunny == sunshine_seconds >= 0
         IN  Ok(WeatherStatus(is_sunny, sunshine_seconds, t))

\* t is the time at which the response is parsed.  int(sunshine_data[0])
\* drops the fraction of the reading.
fetch_weather_from_api(resp, t) ==
    IF resp.timeout THEN Raise
    ELSE IF resp.status # 200 THEN Raise
    ELSE IF ~resp.features THEN Raise
    ELSE IF resp.so_data = <<>> THEN Raise
    ELSE LET sunshine_seconds == IF resp.so_data[1] # None
                                 THEN PyInt(Val(resp.so_data[1]), 10) ELSE 0
             is_sunny == sunshine_seconds > 0
         IN  Ok(WeatherStatus(is_sunny, sunshine_seconds, t))

\* Variant: a snapshot whose age equals the TTL still counted as valid.
is_cache_valid_le(t) ==
    IF weather_cache = None \/ cache_time = None THEN FALSE
    ELSE (t - Val(cache_time)) * 60 <= weather_cache_ttl

\* age in seconds against settings.weather_cache_ttl
is_cache_valid(t) ==
    IF weather_cache = None \/ cache_time = None THEN FALSE
    ELSE (t - Val(cache_time)) * 60 < weather_cache_ttl

NoReturn == [kind |-> "none", caller |-> 0, snapshot |-> None,
             cache_hit |-> FALSE, resp |-> None]

Returned(c, snapshot, cache_hit, resp) ==
    [kind |-> "returned", caller |-> c, snapshot |-> snapshot,
     cache_hit |-> cache_hit, resp |-> resp]

Raised(c, resp) ==
    [kind |-> "raised", caller |-> c, snapshot |-> None, cache_hit |-> FALSE,
     resp |-> resp]

\* Variant: with no cached snapshot, a fabricated "not sunny" snapshot.
except_branch_default(c, resp) ==
    IF weather_cache # None THEN Returned(c, weather_cache, TRUE, Some(resp))
    ELSE Returned(c, Some(WeatherStatus(FALSE, 0, 0)), FALSE, Some(resp))

\* Variant: the stale snapshot returned as a miss.
except_branch_miss(c, resp) ==
    IF weather_cache # None THEN Returned(c, weather_cache, FALSE, Some(resp))
    ELSE Raised(c, Some(resp))

\* get_current_weather, the except branch: the stale snapshot, or re-raise.
except_branch(c, resp) ==
    IF weather_cache # None THEN Returned(c, weather_cache, TRUE, Some(resp))
    ELSE Raised(c, Some(resp))

\* get_current_weather up to the await: a cache hit returns, a miss starts
\* the station request.
GetCurrentWeather(c, force_refresh) ==
    /\ pc[c] = "idle"
    /\ IF ~force_refresh /\ is_cache_valid(now)
       THEN /\ gate_ret' = Returned(c, weather_cache, TRUE, None)
            /\ pc' = pc
       ELSE /\ pc' = [pc EXCEPT ![c] = "fetching"]
            /\ gate_ret' = gate_ret
    /\ UNCHANGED <<now, now_second, exposure, weather_cache_table, weather_cache,
                   cache_time, last>>
    /\ UNCHANGED refresher_vars

\* Variant: a failed station request discarding the cached snapshot.
FetchCompletes_discard(c, resp) ==
    /\ pc[c] = "fetching"
    /\ pc' = [pc EXCEPT ![c] = "idle"]
    /\ LET status == fetch_weather_from_api(resp, now)
       IN  IF ~status.raised
           THEN /\ weather_cache' = Some(status.val)
                /\ cache_time' = Some(now)
                /\ gate_ret' = Returned(c, Some(status.val), FALSE, Some(resp))
           ELSE /\ gate_ret' = except_branch(c, resp)
                /\ weather_cache' = None
                /\ cache_time' = None
    /\ UNCHANGED <<now, now_second, exposure, weather_cache_table, last>>
    /\ UNCHANGED refresher_vars

\* Variant: a successful fetch reported to the caller as a cache hit.
FetchCompletes_hit_flag(c, resp) ==
    /\ pc[c] = "fetching"
    /\ pc' = [pc EXCEPT ![c] = "idle"]
    /\ LET status == fetch_weather_from_api(resp, now)
       IN  IF ~status.raised
           THEN /\ weather_cache' = Some(status.val)
                /\ cache_time' = Some(now)
                /\ gate_ret' = Returned(c, Some(status.val), TRUE, Some(resp))
           ELSE /\ gate_ret' = except_branch(c, resp)
                /\ UNCHANGED <<weather_cache, cache_time>>
    /\ UNCHANGED <<now, now_second, exposure, weather_cache_table, last>>
    /\ UNCHANGED refresher_vars

\* Variant: the snapshot replaced while the cache time is left as it was.
FetchCompletes_keep_time(c, resp) ==
    /\ pc[c] = "fetching"
    /\ pc' = [pc EXCEPT ![c] = "idle"]
    /\ LET status == fetch_weather_from_api(resp, now)
       IN  IF ~status.raised
           THEN /\ weather_cache' = Some(status.val)
                /\ cache_time' = cache_time
                /\ gate_ret' = Returned(c, Some(status.val), FALSE, Some(resp))
           ELSE /\ gate_ret' = except_branch(c, resp)
                /\ UNCHANGED <<weather_cache, cache_time>>
    /\ UNCHANGED <<now, now_second, exposure, weather_cache_table, last>>
    /\ UNCHANGED refresher_vars

\* Variant: a stale fallback that sets the cache time to the current time.
FetchCompletes_touch(c, resp) ==
    /\ pc[c] = "fetching"
    /\ pc' = [pc EXCEPT ![c] = "idle"]
    /\ LET status == fetch_weather_from_api(resp, now)
       IN  IF ~status.raised
           THEN /\ weather_cache' = Some(status.val)
                /\ cache_time' = Some(now)
                /\ gate_ret' = Returned(c, Some(status.val), FALSE, Some(resp))
           ELSE /\ gate_ret' = except_branch(c, resp)
                /\ weather_cache' = weather_cache
                /\ cache_time' = IF weather_cache # None THEN Some(now)
                                 ELSE cache_time
    /\ UNCHANGED <<now, now_second, exposure, weather_cache_table, last>>
    /\ UNCHANGED refresher_vars

\* get_current_weather from the await on: the station request completes
\* with resp.
FetchCompletes(c, resp) ==
    /\ pc[c] = "fetching"
    /\ pc' = [pc EXCEPT ![c] = "idle"]
    /\ LET status == fetch_weather_from_api(resp, now)
       IN  IF ~status.raised
           THEN /\ weather_cache' = Some(status.val)
                /\ cache_time' = Some(now)
                /\ gate_ret' = Returned(c, Some(status.val), FALSE, Some(resp))
           ELSE /\ gate_ret' = except_branch(c, resp)
                /\ UNCHANGED <<weather_cache, cache_time>>
    /\ UNCHANGED <<now, now_second, exposure, weather_cache_table, last>>
    /\ UNCHANGED refresher_vars

\* The outcome of a call that was cancelled while awaiting the station.
Cancelled(c) ==
    [kind |-> "cancelled", caller |-> c, snapshot |-> None, cache_hit |-> FALSE,
     resp |-> None]

\* Variant: a cancelled call dropping the cached snapshot.
CancelFetch_clear(c) ==
    /\ pc[c] = "fetching"
    /\ pc' = [pc EXCEPT ![c] = "idle"]
    /\ gate_ret' = Cancelled(c)
    /\ weather_cache' = None
    /\ cache_time' = None
    /\ UNCHANGED <<now, now_second, exposure, weather_cache_table, last>>
    /\ UNCHANGED refresher_vars

\* The caller's task is cancelled at the await: CancelledError is not an
\* Exception, so neither the assignments nor the except branch run.
CancelFetch(c) ==
    /\ pc[c] = "fetching"
    /\ pc' = [pc EXCEPT ![c] = "idle"]
    /\ gate_ret' = Cancelled(c)
    /\ UNCHANGED <<weather_cache, cache_time>>
    /\ UNCHANGED <<now, now_second, exposure, weather_cache_table, last>>
    /\ UNCHANGED refresher_vars

\* Variant: True assumed when the status cannot be determined.
is_sunny_optimistic(ret) ==
    IF ret.kind = "returned" THEN Ok(Val(ret.snapshot).is_sunny)
    ELSE IF ret.kind = "raised" THEN Ok(TRUE)
    ELSE Raise

\* is_sunny() on the outcome ret of its get_current_weather() call: the
\* snapshot's flag, False when the call raised an Exception; a cancellation
\* passes through.
is_sunny(ret) ==
    IF ret.kind = "returned" THEN Ok(Val(ret.snapshot).is_sunny)
    ELSE IF ret.kind = "raised" THEN Ok(FALSE)
    ELSE Raise

\* Time passes.
AdvanceClock ==
    /\ now + 5 <= MaxClock
    /\ now' = now + 5
    /\ now_second' = now_second
    /\ UNCHANGED <<exposure, weather_cache_table, weather_cache, cache_time,
                   pc, gate_ret, last>>
    /\ UNCHANGED refresher_vars

NoRows == [h \in DataHours |-> None]

GateInit ==
    /\ now = 0
    /\ now_second = 0
    /\ exposure = [b \in BenchIds |-> NoRows]
    /\ weather_cache_table = [r \in RegionIds |-> NoRows]
    /\ weather_cache = None
    /\ cache_time = None
    /\ pc = [c \in Callers |-> "idle"]
    /\ gate_ret = NoReturn
    /\ last = NoRequest
    /\ RefresherIdle

GateNext ==
    \/ \E c \in Callers, force_refresh \in BOOLEAN :
          GetCurrentWeather(c, force_refresh)
    \/ \E c \in Callers, resp \in StationResponses : FetchCompletes(c, resp)
    \/ \E c \in Callers : CancelFetch(c)
    \/ AdvanceClock

GateSpec == GateInit /\ [][GateNext]_vars

-----------------------------------------------------------------------------
(* app/services/weather_openmeteo.py: the writers of weather_cache.  Every  *)
(* operator takes the table it reads and yields the table it leaves.  The  *)
(* column sunshine_duration_seconds is written next to the cloud cover and  *)
(* read by nothing modelled here; rows carry the cloud cover and fetched_at. *)

\* settings.weather_update_interval, seconds
weather_update_interval == 300
\* settings.weather_update_interval // 60 or 5
interval_minutes ==
    IF weather_update_interval \div 60 # 0 THEN weather_update_interval \div 60
    ELSE 5
\* scheduler.add_job passes no max_instances: the scheduler's default of one
\* running instance per job applies.
max_instances == 1
\* cleanup_old_forecasts(168)
RETENTION_HOURS == 168

\* SQL floor(x)::int of num/den, den > 0
PgFloor(num, den) == num \div den

\* SQL round(x::numeric, 1) of a value in 1/100 degree: half away from zero
PgRound1(x) ==
    IF x >= 0 THEN ((x + 5) \div 10) * 10 ELSE -((((-x) + 5) \div 10) * 10)

\* The region_id column of the enumeration query, for one bench.
SqlRegionId(b) ==
    <<PgFloor(benches(b).lat * 10, 100), PgFloor(benches(b).lon * 10, 100)>>

SqlRegionIds == {SqlRegionId(b) : b \in BenchIds}

\* ORDER BY region_id
RegionLess(a, b) == a[1] < b[1] \/ (a[1] = b[1] /\ a[2] < b[2])

RECURSIVE OrderByRegionId(_)
OrderByRegionId(S) ==
    IF S = {} THEN <<>>
    ELSE LET first == CHOOSE r \in S : \A q \in S \ {r} : RegionLess(r, q)
         IN  <<first>> \o OrderByRegionId(S \ {first})

\* DISTINCT ON (region_id) keeps one bench per region; which one is left to
\* the database.
Representatives == {rep \in [SqlRegionIds -> BenchIds] : \A r \in SqlRegionIds : SqlRegionId(rep[r]) = r}

\* The rows of the enumeration query under one choice of representatives.
DistinctRegions(rep) ==
    LET ordered == OrderByRegionId(SqlRegionIds)
    IN  [k \in 1 .. Len(ordered) |->
            [region_id |-> ordered[k],
             lat |-> PgRound1(benches(rep[ordered[k]]).lat),
             lon |-> PgRound1(benches(rep[ordered[k]]).lon)]]

\* Every region id under which the table may hold rows: those the readers
\* compute for the benches and those the refresher computes for its regions.
StoreRegionIds ==
    RegionIds \cup {get_region_id(PgRound1(benches(b).lat), PgRound1(benches(b).lon)) : b \in BenchIds}

\* What the forecast provider can come back with: a timeout, a status code,
\* a body that decodes as JSON or not, and the decoded document.  The key
\* "hourly" is absent, null, or an object with the lists time and cloudcover.
ProviderResponse(timeout, status, json, hourly) ==
    [timeout |-> timeout, status |-> status, json |-> json, hourly |-> hourly]

Hourly(kind, time, cloudcover) ==
    [kind |-> kind, time |-> time, cloudcover |-> cloudcover]

\* One entry of hourly.time: an ISO string for minute t, or another string.
IsoTime(t) == [iso |-> TRUE, t |-> t]
BadTime == [iso |-> FALSE, t |-> 0]

fetch_openmeteo_forecast(resp) ==
    IF resp.timeout THEN None
    ELSE IF resp.status # 200 THEN None
    ELSE IF ~resp.json THEN None
    ELSE Some([hourly |-> resp.hourly])

\* The for loop of _parse_forecast from entry i on; datetime.fromisoformat
\* raises on a string that is no ISO time.
RECURSIVE ParseLoop(_, _, _, _)
ParseLoop(times, cloudcover, i, forecasts) ==
    IF i > Len(times) THEN Ok(forecasts)
    ELSE IF ~times[i].iso THEN Raise
    ELSE LET cloudcover_val == IF i <= Len(cloudcover) THEN cloudcover[i] ELSE None
         IN  ParseLoop(times, cloudcover, i + 1,
                       Append(forecasts, [forecast_time |-> times[i].t,
                                          cloud_cover_percent |-> cloudcover_val]))

\* data.get("hourly", {}) of a null "hourly" is None, and None.get raises.
parse_forecast(data) ==
    IF data.hourly.kind = "absent" THEN Ok(<<>>)
    ELSE IF data.hourly.kind = "null" THEN Raise
    ELSE ParseLoop(data.hourly.time, data.hourly.cloudcover, 1, <<>>)

\* Variant: INSERT ... ON CONFLICT DO NOTHING, an existing row is kept.
upsert_do_nothing(table, region_id, forecast_time, cloud_cover_percent, t) ==
    IF table[region_id][forecast_time \div 60] # None THEN table
    ELSE [table EXCEPT ![region_id][forecast_time \div 60] =
             Some([cloud_cover_percent |-> cloud_cover_percent, fetched_at |-> t])]

\* INSERT ... ON CONFLICT (region_id, forecast_time) DO UPDATE, at time t.
upsert(table, region_id, forecast_time, cloud_cover_percent, t) ==
    [table EXCEPT ![region_id][forecast_time \div 60] =
        Some([cloud_cover_percent |-> cloud_cover_percent, fetched_at |-> t])]

\* The for loop of _store_forecast_in_db from row i on.  fail_at = k > 0
\* makes the k-th execute raise: the loop ends, the rows before it stay.
RECURSIVE StoreLoop(_, _, _, _, _, _)
StoreLoop(table, region_id, forecasts, i, t, fail_at) ==
    IF i > Len(forecasts) THEN [table |-> table, stored |-> i - 1]
    ELSE IF i = fail_at THEN [table |-> table, stored |-> i - 1]
    ELSE StoreLoop(upsert(table, region_id, forecasts[i].forecast_time,
                          forecasts[i].cloud_cover_percent, t),
                   region_id, forecasts, i + 1, t, fail_at)

store_forecast_in_db(table, region_id, forecasts, t, fail_at) ==
    StoreLoop(table, region_id, forecasts, 1, t, fail_at)

\* What one call of update_weather_for_region did.
RegionUpdate(raised, table, stored, success, region_id, forecasts) ==
    [raised |-> raised, table |-> table, stored |-> stored,
     success |-> success, region_id |-> region_id, forecasts |-> forecasts]

update_weather_for_region(table, lat, lon, resp, t, fail_at) ==
    LET region_id == get_region_id(lat, lon)
        data == fetch_openmeteo_forecast(resp)
    IN  IF data = None THEN RegionUpdate(FALSE, table, 0, FALSE, region_id, <<>>)
        ELSE LET forecasts == parse_forecast(Val(data))
             IN  IF forecasts.raised
                 THEN RegionUpdate(TRUE, table, 0, FALSE, region_id, <<>>)
                 ELSE IF forecasts.val = <<>>
                 THEN RegionUpdate(FALSE, table, 0, FALSE, region_id, <<>>)
                 ELSE LET st == store_forecast_in_db(table, region_id,
                                                     forecasts.val, t, fail_at)
                      IN  RegionUpdate(FALSE, st.table, st.stored, TRUE,
                                       region_id, forecasts.val)

\* The database function cleanup_weather_cache(retention_hours), at time t:
\* deletes the rows fetched more than retention_hours ago, returns their number.
Expired(row, retention_hours, t) ==
    row # None /\ Val(row).fetched_at < t - Hours(retention_hours)

cleanup_weather_cache(table, retention_hours, t) ==
    [table |-> [r \in DOMAIN table |-> [h \in DOMAIN table[r] |->
                   IF Expired(table[r][h], retention_hours, t) THEN None
                   ELSE table[r][h]]],
     result |-> Cardinality({k \in (DOMAIN table) \X DataHours :
                               Expired(table[k[1]][k[2]], retention_hours, t)})]

\* Variant: the count of the database function dropped, zero returned.
cleanup_old_forecasts_zero(table, retention_hours, t, fail) ==
    IF fail THEN [table |-> table, result |-> 0]
    ELSE [table |-> cleanup_weather_cache(table, retention_hours, t).table,
          result |-> 0]

\* A database error is logged and 0 returned.
cleanup_old_forecasts(table, retention_hours, t, fail) ==
    IF fail THEN [table |-> table, result |-> 0]
    ELSE cleanup_weather_cache(table, retention_hours, t)

-----------------------------------------------------------------------------
(* The refresh cycle: scheduler.py weather_update_job, run by the interval  *)
(* trigger, and api/weather.py trigger_weather_update.                      *)

Running == {j \in Slots : jobs[j].pc # "idle"}

\* Variant: a job added with max_instances above one; every firing that
\* finds a free slot starts an instance.
TimerFires_overlap ==
    /\ fired < MaxFirings
    /\ fired' = fired + 1
    /\ now' = now + interval_minutes
    /\ now_second' = now_second
    /\ IF Running # Slots
       THEN LET j == CHOOSE k \in Slots \ Running : \A m \in Slots \ Running : k <= m
            IN  /\ jobs' = [jobs EXCEPT ![j] = [IdleJob EXCEPT !.pc = "enumerate"]]
                /\ rlog' = StepLog("started", j)
       ELSE /\ jobs' = jobs
            /\ rlog' = StepLog("skipped", 0)
    /\ UNCHANGED weather_cache_table
    /\ UNCHANGED request_vars

\* The interval trigger fires, interval_minutes after the previous firing.
\* The scheduler starts an instance of weather_update_job unless
\* max_instances of them are running; a firing that finds them running is
\* skipped.
TimerFires ==
    /\ fired < MaxFirings
    /\ fired' = fired + 1
    /\ now' = now + interval_minutes
    /\ now_second' = now_second
    /\ IF Cardinality(Running) < max_instances /\ Running # Slots
       THEN LET j == CHOOSE k \in Slots \ Running : \A m \in Slots \ Running : k <= m
            IN  /\ jobs' = [jobs EXCEPT ![j] = [IdleJob EXCEPT !.pc = "enumerate"]]
                /\ rlog' = StepLog("started", j)
       ELSE /\ jobs' = jobs
            /\ rlog' = StepLog("skipped", 0)
    /\ UNCHANGED weather_cache_table
    /\ UNCHANGED request_vars

\* update_all_region_forecasts up to its loop: the enumeration query.  When
\* the query fails the function returns {} and the job goes on to the
\* cleanup.
EnumerateRegions(j, fail) ==
    /\ jobs[j].pc = "enumerate"
    /\ IF fail
       THEN jobs' = [jobs EXCEPT ![j] = [IdleJob EXCEPT !.pc = "purge"]]
       ELSE \E rep \in Representatives :
               LET regions == DistinctRegions(rep)
               IN  jobs' = [jobs EXCEPT ![j] =
                               [pc |-> IF regions = <<>> THEN "purge" ELSE "regions",
                                regions |-> regions, i |-> 1, results |-> <<>>]]
    /\ rlog' = StepLog("enumerated", j)
    /\ UNCHANGED <<now, now_second, weather_cache_table, fired>>
    /\ UNCHANGED request_vars

\* One pass of the loop of update_all_region_forecasts: the provider answers
\* resp for the region, the store fails at row fail_at (0: not at all).  An
\* exception leaves update_all_region_forecasts and is caught by
\* weather_update_job, which logs it and ends.
UpdateRegion(j, resp, fail_at) ==
    /\ jobs[j].pc = "regions"
    /\ LET region == jobs[j].regions[jobs[j].i]
           u == update_weather_for_region(weather_cache_table, region.lat,
                                          region.lon, resp, now, fail_at)
       IN  IF u.raised
           THEN /\ jobs' = [jobs EXCEPT ![j] = IdleJob]
                /\ rlog' = RLog("aborted", j, u.region_id, <<>>, 0, 0, FALSE,
                                "", <<>>, FALSE)
                /\ UNCHANGED weather_cache_table
           ELSE /\ weather_cache_table' = u.table
                /\ jobs' = [jobs EXCEPT ![j] =
                              [pc |-> IF jobs[j].i + 1 > Len(jobs[j].regions)
                                      THEN "purge" ELSE "regions",
                               regions |-> jobs[j].regions,
                               i |-> jobs[j].i + 1,
                               results |-> DictSet(jobs[j].results,
                                                   region.region_id, u.stored)]]
                /\ rlog' = RLog("updated", j, u.region_id, u.forecasts,
                                u.stored, 0, FALSE, "", <<>>, FALSE)
    /\ UNCHANGED <<now, now_second, fired>>
    /\ UNCHANGED request_vars

\* Variant: the cleanup run inside the loop over the regions.
CleanupOldForecasts_early(j, fail) ==
    /\ jobs[j].pc \in {"regions", "purge"}
    /\ LET c == cleanup_old_forecasts(weather_cache_table, RETENTION_HOURS,
                                      now, fail)
       IN  /\ weather_cache_table' = c.table
           /\ rlog' = RLog("cleanup", j, <<>>, <<>>, 0, c.result, fail, "",
                           <<>>, FALSE)
    /\ jobs' = [jobs EXCEPT ![j] = IdleJob]
    /\ UNCHANGED <<now, now_second, fired>>
    /\ UNCHANGED request_vars

\* The end of weather_update_job: cleanup_old_forecasts(168).
CleanupOldForecasts(j, fail) ==
    /\ jobs[j].pc = "purge"
    /\ LET c == cleanup_old_forecasts(weather_cache_table, RETENTION_HOURS,
                                      now, fail)
       IN  /\ weather_cache_table' = c.table
           /\ rlog' = RLog("cleanup", j, <<>>, <<>>, 0, c.result, fail, "",
                           <<>>, FALSE)
    /\ jobs' = [jobs EXCEPT ![j] = IdleJob]
    /\ UNCHANGED <<now, now_second, fired>>
    /\ UNCHANGED request_vars

\* POST /weather/update.  run_weather_update_once is the coroutine function
\* of weather_openmeteo.py and is called without await: the call builds a
\* coroutine object that is never run, nothing raises, and the handler
\* answers "success".
trigger_weather_update ==
    /\ rlog' = RLog("trigger", 0, <<>>, <<>>, 0, 0, FALSE, "success", <<>>, FALSE)
    /\ UNCHANGED <<now, now_second, weather_cache_table, jobs, fired>>
    /\ UNCHANGED request_vars

\* Payloads of the provider: two hours with 5% cover; two hours with the
\* threshold cover and a cloudcover list one entry short; one hour twice.
GoodHourlies ==
    {Hourly("dict", <<IsoTime(0), IsoTime(60)>>, <<Some(5), Some(5)>>),
     Hourly("dict", <<IsoTime(0), IsoTime(60)>>, <<Some(CLOUD_COVER_THRESHOLD)>>),
     Hourly("dict", <<IsoTime(0), IsoTime(0)>>, <<Some(5), Some(CLOUD_COVER_THRESHOLD)>>)}

ProviderResponses ==
    {ProviderResponse(TRUE, 0, FALSE, Hourly("absent", <<>>, <<>>)),
     ProviderResponse(FALSE, 500, TRUE, Hourly("absent", <<>>, <<>>)),
     ProviderResponse(FALSE, 200, FALSE, Hourly("absent", <<>>, <<>>)),
     ProviderResponse(FALSE, 200, TRUE, Hourly("absent", <<>>, <<>>)),
     ProviderResponse(FALSE, 200, TRUE, Hourly("null", <<>>, <<>>)),
     ProviderResponse(FALSE, 200, TRUE,
                      Hourly("dict", <<IsoTime(0), BadTime>>, <<Some(5), Some(5)>>))}
    \cup {ProviderResponse(FALSE, 200, TRUE, h) : h \in GoodHourlies}

-----------------------------------------------------------------------------
(* Resolver requests *)

\* Timestamps at which an injected geometric-store failure may sit.
FailTicks == {Hours(h) : h \in 0 .. MaxTick}

SingleFails(bench_id) ==
    {NoFail, [kind |-> "catalog", bench |-> bench_id, tick |-> 0],
     [kind |-> "forecast", bench |-> 0, tick |-> 0]}
    \cup {[kind |-> "geo", bench |-> bench_id, tick |-> t] : t \in FailTicks}

\* Variant: a resolution that stores a clear forecast for the site's region
\* at hour 0, as if it had asked the provider.
GetBenchSunStatus_fill(bench_id, skip_weather_check, fail) ==
    /\ last.op = "none"
    /\ last' = [op |-> "single", ids |-> <<bench_id>>,
                skip |-> skip_weather_check, fail |-> fail,
                out |-> (bench_id :>
                           get_bench_sun_status(bench_id, skip_weather_check,
                                                now, fail))]
    /\ weather_cache_table' =
           [weather_cache_table EXCEPT
               ![get_region_id(benches(1).lat, benches(1).lon)][0] =
               Some([cloud_cover_percent |-> Some(CLOUD_COVER_THRESHOLD),
                     fetched_at |-> now])]
    /\ UNCHANGED <<now, now_second, exposure, weather_cache, cache_time, pc,
                   gate_ret>>
    /\ UNCHANGED refresher_vars

\* GET of one site's status: get_bench_sun_status at the current time.
GetBenchSunStatus(bench_id, skip_weather_check, fail) ==
    /\ last.op = "none"
    /\ last' = [op |-> "single", ids |-> <<bench_id>>,
                skip |-> skip_weather_check, fail |-> fail,
                out |-> (bench_id :>
                           get_bench_sun_status(bench_id, skip_weather_check,
                                                now, fail))]
    /\ UNCHANGED <<now, now_second, exposure, weather_cache_table, weather_cache,
                   cache_time, pc, gate_ret>>
    /\ UNCHANGED refresher_vars

\* Lists of ids a batch request may carry.
BatchRequests == {<<>>, <<1, 2>>, <<2, 1>>, <<3, 1>>}

\* A failure of the batch query, or of a lookup made for one bench of the list.
BatchFails(bench_ids) ==
    {NoFail, [kind |-> "batch", bench |-> 0, tick |-> 0]}
    \cup {[kind |-> "catalog", bench |-> b, tick |-> 0] :
             b \in SeqRange(bench_ids) \cap BenchIds}
    \cup {[kind |-> "geo", bench |-> b, tick |-> t] :
             b \in SeqRange(bench_ids) \cap BenchIds, t \in FailTicks}

\* get_bench_sun_status_batch at the current time.
GetBenchSunStatusBatch(bench_ids, skip_weather_check, fail) ==
    /\ last.op = "none"
    /\ last' = [op |-> "batch", ids |-> bench_ids,
                skip |-> skip_weather_check, fail |-> fail,
                out |-> get_bench_sun_status_batch(bench_ids,
                                                   skip_weather_check, now, fail)]
    /\ UNCHANGED <<now, now_second, exposure, weather_cache_table, weather_cache,
                   cache_time, pc, gate_ret>>
    /\ UNCHANGED refresher_vars

-----------------------------------------------------------------------------
(* Initial states of the resolver specification *)

OptBool == {None, Some(TRUE), Some(FALSE)}

\* Cloud covers a forecast row may carry: clear, exactly the threshold.
CloudCovers == {5, CLOUD_COVER_THRESHOLD}

ForecastRowOf(cloud) == Some([cloud_cover_percent |-> Some(cloud), fetched_at |-> 0])
OptRows == {None} \cup {ForecastRowOf(c) : c \in CloudCovers}

\* A store column over DataHours from one over 0..MaxTick; no rows beyond.
Widen(col) == [h \in DataHours |-> IF h \in DOMAIN col THEN col[h] ELSE None]

\* Exposed on [0, k) hours and shaded from k on.
ScenarioExposure(k) == [h \in DataHours |-> IF h < k THEN Some(TRUE) ELSE Some(FALSE)]

\* Data of bench 1 and of its region: every combination over 0..MaxTick,
\* and the scenario family under a clear forecast.
Bench1Data ==
    {<<Widen(e), Widen(f)>> : e \in [0 .. MaxTick -> OptBool],
                              f \in [0 .. MaxTick -> OptRows]}
    \cup {<<ScenarioExposure(k), [h \in DataHours |-> ForecastRowOf(5)]>> :
             k \in 1 .. ScenarioHours}

\* Data of bench 2 and of its region.
Bench2Data ==
    {<<[h \in DataHours |-> None], [h \in DataHours |-> None]>>,
     <<ScenarioExposure(1), [h \in DataHours |-> ForecastRowOf(5)]>>}

\* Request times: before and after the half hour.
NowSet == {10, 40}

\* Seconds past the minute at which a request may arrive.
Seconds == {0, 30}

Region(bench_id) == get_region_id(benches(bench_id).lat, benches(bench_id).lon)

GateIdle ==
    /\ weather_cache = None
    /\ cache_time = None
    /\ pc = [c \in Callers |-> "idle"]
    /\ gate_ret = NoReturn

Init ==
    /\ now \in NowSet
    /\ now_second = 0
    /\ \E d1 \in Bench1Data, d2 \in Bench2Data :
          /\ exposure = (1 :> d1[1]) @@ (2 :> d2[1])
          /\ weather_cache_table = (Region(1) :> d1[2]) @@ (Region(2) :> d2[2])
    /\ GateIdle
    /\ last = NoRequest
    /\ RefresherIdle

\* Requests for one site.  One request is resolved per behaviour: resolving
\* changes no store, so a later request would see the same state.
SingleNext ==
    \/ \E b \in RequestIds : \E f \in SingleFails(b) : GetBenchSunStatus(b, FALSE, f)
    \/ \E b \in RequestIds : GetBenchSunStatus(b, TRUE, NoFail)

\* Requests for a list of sites.
BatchNext ==
    \/ \E ids \in BatchRequests : \E f \in BatchFails(ids) :
          GetBenchSunStatusBatch(ids, FALSE, f)
    \/ \E ids \in BatchRequests : GetBenchSunStatusBatch(ids, TRUE, NoFail)

Spec == Init /\ [][SingleNext]_vars

BatchSpec == Init /\ [][BatchNext]_vars

\* Snapshots the gate may hold when a request arrives: none, or one cached
\* 5 minutes ago (within the TTL) or 15 minutes ago (past it).
AreaGateStates ==
    {<<None, None>>}
    \cup {<<Some(WeatherStatus(sec > 0, sec, now - age)), Some(now - age)>> :
             sec \in {0, 300}, age \in {5, 15}}

\* Resolver requests under every state of the gate, over the scenario family.
AreaInit ==
    /\ now \in NowSet
    /\ now_second \in Seconds
    /\ \E k \in 1 .. ScenarioHours, d2 \in Bench2Data :
          /\ exposure = (1 :> ScenarioExposure(k)) @@ (2 :> d2[1])
          /\ weather_cache_table =
                (Region(1) :> [h \in DataHours |-> ForecastRowOf(5)])
                @@ (Region(2) :> d2[2])
    /\ \E g \in AreaGateStates : weather_cache = g[1] /\ cache_time = g[2]
    /\ pc = [c \in Callers |-> "idle"]
    /\ gate_ret = NoReturn
    /\ last = NoRequest
    /\ RefresherIdle

AreaSpec == AreaInit /\ [][SingleNext \/ BatchNext]_vars

\* The result has been returned to the caller; the next request may come.
Returns ==
    /\ last.op # "none"
    /\ last' = NoRequest
    /\ UNCHANGED <<now, now_second, exposure, weather_cache_table, weather_cache,
                   cache_time, pc, gate_ret>>
    /\ UNCHANGED refresher_vars

\* Any number of resolutions, one after the other.
ResolveSpec == AreaInit /\ [][SingleNext \/ BatchNext \/ Returns]_vars

\* Hours at which the stores hold rows when the end of the search window is
\* at stake: the first two and the three around now + 48 h.
HorizonHours == {0, 1, SEARCH_HOURS - 1, SEARCH_HOURS, SEARCH_HOURS + 1}

\* Request times on the hour, in the last minute before the half hour, and
\* before and after the half hour.
HorizonNows == {0, 29} \cup NowSet

\* Geometry of bench 1: known at hour 0, any entry or none at the others.
HorizonExposures ==
    {e \in [HorizonHours -> OptBool] : e[0] # None}

\* Forecasts of bench 1's region: clear throughout, with any entry or none
\* at the last two hours before now + 48 h.
HorizonForecasts ==
    {f \in [HorizonHours -> OptRows] :
        \A h \in HorizonHours :
            h \notin {SEARCH_HOURS - 1, SEARCH_HOURS} => f[h] = ForecastRowOf(5)}

HorizonInit ==
    /\ now \in HorizonNows
    /\ now_second \in Seconds
    /\ \E e \in HorizonExposures, f \in HorizonForecasts :
          /\ exposure = (1 :> e) @@ (2 :> NoRows)
          /\ weather_cache_table = (Region(1) :> f) @@ (Region(2) :> NoRows)
    /\ GateIdle
    /\ last = NoRequest
    /\ RefresherIdle

\* Requests in which no lookup fails.
HorizonNext ==
    \/ \E b \in RequestIds : GetBenchSunStatus(b, FALSE, NoFail)
    \/ \E ids \in BatchRequests : GetBenchSunStatusBatch(ids, FALSE, NoFail)

HorizonSpec == HorizonInit /\ [][HorizonNext]_vars

-----------------------------------------------------------------------------
(* app/api/benches.py: GET /benches/{bench_id} *)

\* An HTTP answer: the status code and, for a 200, the status triple of the
\* BenchDetail body.
HttpError(code) ==
    [http |-> code, current_status |-> None, sun_until |-> None,
     remaining_minutes |-> None]

BenchDetail(triple) ==
    [http |-> 200, current_status |-> Some(triple.status),
     sun_until |-> triple.changes_at,
     remaining_minutes |-> triple.remaining_minutes]

\* Variant: the endpoint without the "Bench not found" check.
get_bench_unchecked(bench_id, t_now, fail) ==
    LET bench == get_bench_by_id(bench_id, fail)
    IN  IF bench.raised THEN HttpError(500)
        ELSE LET status_map ==
                     get_bench_sun_status_batch(<<bench_id>>, FALSE, t_now, fail)
             IN  BenchDetail(IF bench_id \in DOMAIN status_map
                             THEN status_map[bench_id] ELSE Unknown)

\* One catalog lookup: 404 when the bench is not there, 500 when the lookup
\* raises; else the batch resolver for the single id.
get_bench(bench_id, t_now, fail) ==
    LET bench == get_bench_by_id(bench_id, fail)
    IN  IF bench.raised THEN HttpError(500)
        ELSE IF bench.val = None THEN HttpError(404)
        ELSE LET status_map ==
                     get_bench_sun_status_batch(<<bench_id>>, FALSE, t_now, fail)
             IN  BenchDetail(IF bench_id \in DOMAIN status_map
                             THEN status_map[bench_id] ELSE Unknown)

\* A request to the endpoint at the current time.
GetBench(bench_id, fail) ==
    /\ last.op = "none"
    /\ last' = [op |-> "get_bench", ids |-> <<bench_id>>, skip |-> FALSE,
                fail |-> fail, out |-> get_bench(bench_id, now, fail)]
    /\ UNCHANGED <<now, now_second, exposure, weather_cache_table, weather_cache,
                   cache_time, pc, gate_ret>>
    /\ UNCHANGED refresher_vars

\* Failures a request to the endpoint may meet.
EndpointFails(bench_id) ==
    SingleFails(bench_id) \cup {[kind |-> "batch", bench |-> 0, tick |-> 0]}

BenchNext == \E b \in RequestIds : \E f \in EndpointFails(b) : GetBench(b, f)

BenchSpec == AreaInit /\ [][BenchNext]_vars

-----------------------------------------------------------------------------
(* app/api/weather.py: the forecast endpoints *)

\* A database error inside a reader of the forecast cache.
ForecastFail == [kind |-> "forecast", bench |-> 0, tick |-> 0]

\* The record of a call of a forecast reader and of what it returned.
ForecastCall(op, lat, lon, from_time, max_hours, fail, out) ==
    [op |-> op, ids |-> <<>>, skip |-> FALSE, fail |-> fail, out |-> out,
     lat |-> lat, lon |-> lon, from_time |-> from_time,
     max_hours |-> max_hours]

\* GET /weather/forecast/next-sunny: get_next_sunny_time from the current
\* time over `hours` hours.
get_next_sunny(lat, lon, hours, fail) ==
    /\ last.op = "none"
    /\ LET from_time == now
           next_sunny == get_next_sunny_time(lat, lon, from_time, hours, fail)
       IN  last' = ForecastCall("next_sunny", lat, lon, from_time, hours, fail,
                                Ok(next_sunny))
    /\ UNCHANGED <<now, now_second, exposure, weather_cache_table, weather_cache,
                   cache_time, pc, gate_ret>>
    /\ UNCHANGED refresher_vars

\* GET /weather/forecast/is-sunny without `at`: is_sunny_at_time at the
\* current time.
check_forecast_sunny(lat, lon, fail) ==
    /\ last.op = "none"
    /\ LET check_time == now
           cloud_cover == is_sunny_at_time(lat, lon, check_time, fail)
       IN  last' = ForecastCall("is_sunny_at", lat, lon, check_time, 0, fail,
                                Ok(cloud_cover))
    /\ UNCHANGED <<now, now_second, exposure, weather_cache_table, weather_cache,
                   cache_time, pc, gate_ret>>
    /\ UNCHANGED refresher_vars

\* Locations asked about: the two benches.
ForecastLocations == {<<benches(b).lat, benches(b).lon>> : b \in BenchIds}

\* Search horizons asked for: the two shortest and the default.
SearchHours == {1, 2, SEARCH_HOURS}

\* A row whose cloud cover is NULL.
NullCoverRow == Some([cloud_cover_percent |-> None, fetched_at |-> 0])

\* The rows of bench 1's region: none, clear, at the threshold or NULL at
\* each hour; bench 2's region holds none.
ForecastInit ==
    /\ now \in HorizonNows
    /\ now_second \in Seconds
    /\ exposure = [b \in BenchIds |-> NoRows]
    /\ \E f \in [0 .. MaxTick -> OptRows \cup {NullCoverRow}] :
          weather_cache_table = (Region(1) :> Widen(f)) @@ (Region(2) :> NoRows)
    /\ GateIdle
    /\ last = NoRequest
    /\ RefresherIdle

ForecastNext ==
    \/ \E loc \in ForecastLocations, hours \in SearchHours,
          fail \in {NoFail, ForecastFail} :
          get_next_sunny(loc[1], loc[2], hours, fail)
    \/ \E loc \in ForecastLocations, fail \in {NoFail, ForecastFail} :
          check_forecast_sunny(loc[1], loc[2], fail)

ForecastSpec == ForecastInit /\ [][ForecastNext]_vars

-----------------------------------------------------------------------------
(* The refresher specification *)

\* Rows per payload, and so the rows at which a store may fail.
MaxRows == 2

\* A row as a refresh wrote it `age` hours before minute 0.
OldRow(cloud, age) == Some([cloud_cover_percent |-> Some(cloud), fetched_at |-> 0 - Hours(age)])

EmptyTable == [r \in StoreRegionIds |-> NoRows]

\* Tables the refresher may find: nothing, or rows of earlier cycles fetched
\* 200 hours and 10 hours ago.
RefreshTables ==
    {EmptyTable}
    \cup {[EmptyTable EXCEPT ![r] = [NoRows EXCEPT ![0] = OldRow(c, 200), ![1] = OldRow(c, 10)]] :
             r \in StoreRegionIds, c \in CloudCovers}

RefreshInit ==
    /\ now = 0
    /\ now_second = 0
    /\ exposure = [b \in BenchIds |-> NoRows]
    /\ weather_cache_table \in RefreshTables
    /\ GateIdle
    /\ last = NoRequest
    /\ RefresherIdle

RefreshNext ==
    \/ TimerFires
    \/ \E j \in Slots, fail \in BOOLEAN : EnumerateRegions(j, fail)
    \/ \E j \in Slots, resp \in ProviderResponses, fail_at \in 0 .. MaxRows :
          UpdateRegion(j, resp, fail_at)
    \/ \E j \in Slots, fail \in BOOLEAN : CleanupOldForecasts(j, fail)
    \/ trigger_weather_update

RefreshSpec == RefreshInit /\ [][RefreshNext]_vars

-----------------------------------------------------------------------------
(* What the claims speak of, read directly from the stores *)

\* The tick a request at the current time resolves.
CurrentTick == round_to_hour(now)

GeoPresent(bench_id, t) == ExposureRow(bench_id, t) # None
GeoExposed(bench_id, t) == ExposureRow(bench_id, t) = Some(TRUE)

\* The cloud cover the forecast cache holds for the site's region at t, if any.
CloudAt(bench_id, t) ==
    LET row == ForecastRow(Region(bench_id), t)
    IN  IF row = None THEN None ELSE Val(row).cloud_cover_percent

ForecastPresent(bench_id, t) == CloudAt(bench_id, t) # None

\* Geometry exposed AND cloud cover below the threshold.
Combined(bench_id, t) ==
    /\ GeoExposed(bench_id, t)
    /\ ForecastPresent(bench_id, t)
    /\ Val(CloudAt(bench_id, t)) < CLOUD_COVER_THRESHOLD

\* Hourly ticks strictly after the current tick and before now + 48 h.
HorizonTicks ==
    {t \in {CurrentTick + Hours(k) : k \in 1 .. SEARCH_HOURS + 1} :
        t * 60 < (now + Hours(SEARCH_HOURS)) * 60 + now_second}

\* Ticks of the horizon with geometric data whose combined result differs
\* from the status cur (TRUE for sunny).
FlipTicks(bench_id, cur) ==
    {t \in HorizonTicks : GeoPresent(bench_id, t) /\ (Combined(bench_id, t) # cur)}

\* The same, with the forecast entry present as well.
ConfirmedFlipTicks(bench_id, cur) ==
    {t \in FlipTicks(bench_id, cur) : ForecastPresent(bench_id, t)}

MinOf(S) == CHOOSE t \in S : \A u \in S : t <= u

SingleDone == last.op = "single"
SingleId == last.ids[1]
SingleOut == last.out[last.ids[1]]
SingleClean == SingleDone /\ last.fail = NoFail /\ SingleId \in BenchIds

-----------------------------------------------------------------------------
(* C1..C8: the resolver *)

C2_NoGeometryIsUnknown ==
    (SingleDone /\ ~GeoPresent(SingleId, CurrentTick)) => SingleOut = Unknown

C2_Witness ==
    /\ SingleDone
    /\ SingleId \in BenchIds
    /\ ~GeoPresent(SingleId, CurrentTick)
    /\ ForecastPresent(SingleId, CurrentTick)
    /\ SingleOut = Unknown

\* C3: when some tick of the horizon has geometric data and a combined
\* result that differs from the current effective status, changes_at is the
\* earliest such tick; with the site exposed on [0, ScenarioHours) hours and
\* shaded after, under a 5% cloud cover throughout, a request resolved at
\* tick 0 is sunny with changes_at = ScenarioHours hours.
C3_EarliestFlip ==
    (SingleClean /\ SingleOut.status # "unknown") =>
        LET cur == SingleOut.status = "sunny"
            flips == FlipTicks(SingleId, cur)
        IN  /\ flips # {} => SingleOut.changes_at = Some(MinOf(flips))
            /\ ( /\ CurrentTick = 0
                 /\ exposure[SingleId] = ScenarioExposure(ScenarioHours)
                 /\ \A h \in DataHours : CloudAt(SingleId, Hours(h)) = Some(5) )
               => /\ SingleOut.status = "sunny"
                  /\ SingleOut.changes_at = Some(Hours(ScenarioHours))

C3_Witness ==
    /\ SingleClean
    /\ CurrentTick = 0
    /\ exposure[SingleId] = ScenarioExposure(ScenarioHours)
    /\ \A h \in DataHours : CloudAt(SingleId, Hours(h)) = Some(5)
    /\ SingleOut.status = "sunny"
    /\ SingleOut.changes_at = Some(Hours(ScenarioHours))

\* C4 (as claimed): a tick with geometric data and no forecast entry is
\* never returned as changes_at while a later tick of the horizon has a
\* confirmed differing combined result.  Stated for the ticks at which the
\* site is exposed, where the outcome hinges on the missing forecast.
C4_MissingForecastOnlyCandidate ==
    (SingleClean /\ SingleOut.status # "unknown" /\ SingleOut.changes_at # None) =>
        LET cur == SingleOut.status = "sunny"
            t == Val(SingleOut.changes_at)
        IN  (GeoExposed(SingleId, t) /\ ~ForecastPresent(SingleId, t)) =>
                ~ \E u \in ConfirmedFlipTicks(SingleId, cur) : u > t

\* C6 (as claimed): with skip_weather_check = TRUE a site exposed at the
\* resolved tick is reported sunny, whatever the forecast cache holds.
C6_SkipBypassesWeather ==
    (SingleClean /\ last.skip /\ GeoExposed(SingleId, CurrentTick)) =>
        SingleOut.status = "sunny"

\* The gate holds a snapshot within its TTL that reports no sunshine, so
\* is_sunny() answers False from the cache.
GateReportsNotSunny == is_cache_valid(now) /\ ~Val(weather_cache).is_sunny

\* C5 (as claimed): when the gate reports not-sunny and skip_weather_check
\* is false, the result is (shady, none, none).  Stated for the sites that
\* have geometric data at the resolved tick.
C5_GateNotSunnyIsShady ==
    (SingleClean /\ ~last.skip /\ GateReportsNotSunny
        /\ GeoPresent(SingleId, CurrentTick)) =>
        SingleOut = Triple("shady", None, None)

BatchDone == last.op = "batch"

\* C7: when no lookup fails, the batch maps each requested id to the triple
\* the single-site resolution returns for it at the same time.
C7_BatchEqualsSingle ==
    (BatchDone /\ last.fail = NoFail) =>
        \A id \in SeqRange(last.ids) :
            last.out[id] = get_bench_sun_status(id, last.skip, now, NoFail)

C7_Witness ==
    /\ BatchDone
    /\ last.fail = NoFail
    /\ last.ids = <<1, 2>>
    /\ last.out[1].status = "shady"
    /\ last.out[1].changes_at # None
    /\ last.out[2].status = "sunny"

\* C8 (as claimed): a lookup failure while resolving one site of a batch
\* leaves every other site of the batch with the result it has without the
\* failure.
C8_FailureIsolated ==
    (BatchDone /\ last.fail.kind \in {"catalog", "geo"}) =>
        \A id \in SeqRange(last.ids) \ {last.fail.bench} :
            last.out[id] =
                get_bench_sun_status_batch(last.ids, last.skip, now, NoFail)[id]

-----------------------------------------------------------------------------
(* C9, C10: the sunshine gate when the station request fails *)

\* Timeout, non-200 status, or a payload without features or SO data.
FetchFails(resp) ==
    resp.timeout \/ resp.status # 200 \/ ~resp.features \/ resp.so_data = <<>>

\* The step in which caller c's station request completes with a failure.
FailedCompletion(c) ==
    /\ pc[c] = "fetching"
    /\ pc'[c] = "idle"
    /\ gate_ret'.resp # None
    /\ FetchFails(Val(gate_ret'.resp))

\* C9: when the station request of a call fails while a snapshot is cached,
\* the call returns that snapshot with cache_hit = true, raises nothing, and
\* leaves the cached snapshot and its cache time as they were.
C9_StaleSnapshotOnFailure ==
    [][\A c \in Callers :
          (FailedCompletion(c) /\ weather_cache # None) =>
              /\ gate_ret' = Returned(c, weather_cache, TRUE, gate_ret'.resp)
              /\ weather_cache' = weather_cache
              /\ cache_time' = cache_time]_vars

\* A timeout answered from a snapshot that is past its TTL.
C9_Witness ==
    /\ gate_ret.kind = "returned"
    /\ gate_ret.cache_hit
    /\ gate_ret.resp = Some(StationResponse(TRUE, 0, FALSE, <<>>))
    /\ gate_ret.snapshot = weather_cache
    /\ weather_cache # None
    /\ ~is_cache_valid(now)

\* C10: when the station request of a call fails while no snapshot is
\* cached, the call raises, returns no snapshot, and the cache stays empty.
C10_FailureWithoutCacheRaises ==
    [][\A c \in Callers :
          (FailedCompletion(c) /\ weather_cache = None) =>
              /\ gate_ret' = Raised(c, gate_ret'.resp)
              /\ weather_cache' = None
              /\ cache_time' = None]_vars

C10_Witness ==
    /\ gate_ret.kind = "raised"
    /\ gate_ret.snapshot = None
    /\ gate_ret.resp # None
    /\ weather_cache = None
    /\ cache_time = None

-----------------------------------------------------------------------------
(* C11..C13: the sunshine gate's cache *)

\* Age of the cached snapshot at the current time, in seconds.
CacheAgeSeconds == (now - Val(cache_time)) * 60

\* C11: a call returns the cached snapshot with cache_hit = true and starts
\* no station request exactly when it is not forced, a snapshot is cached and
\* its age is strictly below the TTL; in every other case (forced, nothing
\* cached, age at or past the TTL) it starts a station request.  The
\* snapshot a hit returns is the cached one, as stored by the fetch that set
\* the cache time.
C11_HitIffFreshAndNotForced ==
    [][\A c \in Callers, force_refresh \in BOOLEAN :
          GetCurrentWeather(c, force_refresh) =>
              IF /\ ~force_refresh
                 /\ weather_cache # None
                 /\ cache_time # None
                 /\ CacheAgeSeconds < weather_cache_ttl
              THEN /\ gate_ret' = Returned(c, weather_cache, TRUE, None)
                   /\ Val(weather_cache).cached_at = Val(cache_time)
                   /\ pc'[c] = "idle"
                   /\ weather_cache' = weather_cache
              ELSE /\ pc'[c] = "fetching"
                   /\ gate_ret' = gate_ret]_vars

\* A hit five minutes after the fetch, while nobody is fetching.
C11_Witness ==
    /\ gate_ret.kind = "returned"
    /\ gate_ret.cache_hit
    /\ gate_ret.resp = None
    /\ gate_ret.snapshot = weather_cache
    /\ weather_cache # None
    /\ now = Val(cache_time) + 5
    /\ \A c \in Callers : pc[c] = "idle"

\* C12: once the gate holds a snapshot it holds one after every step,
\* whichever calls start and however their station requests complete.
C12_CacheNeverRegresses ==
    [][weather_cache # None => (weather_cache' # None /\ cache_time' # None)]_vars

\* A snapshot that survived a failed station request of one caller while the
\* other caller's request is still in flight.
C12_Witness ==
    /\ weather_cache # None
    /\ gate_ret.kind = "returned"
    /\ gate_ret.resp = Some(StationResponse(FALSE, 500, FALSE, <<>>))
    /\ \E c \in Callers : pc[c] = "fetching"

\* Callers whose station request is in flight.
InFlight == {c \in Callers : pc[c] = "fetching"}

\* C13 (as claimed): at most one station request is in flight at any time.
C13_SingleFlight == Cardinality(InFlight) <= 1

-----------------------------------------------------------------------------
(* C14..C20: the refresh cycle and the forecast cache's writers *)

EnumeratedRegionIds == SqlRegionIds

\* C15 (as claimed): when the manual trigger answers success, the call has
\* attempted every region enumerated from the catalog and has executed the
\* purge.
C15_ManualTriggerRunsCycle ==
    (rlog.step = "trigger" /\ rlog.status = "success") =>
        /\ SeqRange(rlog.attempted) = EnumeratedRegionIds
        /\ rlog.purged

\* C16 (as claimed): a pass of the cycle's loop whose region could not be
\* obtained (timeout, non-200 status, undecodable body, unparseable payload)
\* is skipped: the job moves on to the next enumerated region, or to the
\* purge after the last one.
C16_RegionFailureSkipped ==
    [][\A j \in Slots :
          (jobs[j].pc = "regions" /\ jobs'[j] # jobs[j]) =>
              /\ jobs'[j].i = jobs[j].i + 1
              /\ jobs'[j].regions = jobs[j].regions
              /\ jobs'[j].pc = IF jobs[j].i < Len(jobs[j].regions)
                               THEN "regions" ELSE "purge"]_vars

\* A job at its purge step after every enumerated region was fetched and
\* every row of its payload was stored (the payloads all have as many rows).
CycleFullySucceeded(j) ==
    /\ jobs[j].pc = "purge"
    /\ jobs[j].regions # <<>>
    /\ \A k \in 1 .. Len(jobs[j].regions) :
          /\ jobs[j].regions[k].region_id \in DOMAIN jobs[j].results
          /\ \A hourly \in GoodHourlies :
                jobs[j].results[jobs[j].regions[k].region_id] = Len(hourly.time)

\* C17 (as claimed): after a cycle in which every fetch and store succeeded,
\* the lookup keyed by each site's own coordinates finds an entry at hour 0,
\* a tick every payload of the provider supplies.
C17_RefresherKeyIsResolverKey ==
    \A j \in Slots :
        CycleFullySucceeded(j) =>
            \A b \in BenchIds : ForecastRow(Region(b), 0) # None

\* The cloud cover a table holds under a key, if any.
CloudIn(table, region_id, h) ==
    IF table[region_id][h] = None THEN None
    ELSE Val(table[region_id][h]).cloud_cover_percent

\* The rows among the first n of forecasts that were written for hour h.
WrittenFor(forecasts, n, h) ==
    {i \in 1 .. n : forecasts[i].forecast_time = Hours(h)}

MaxOf(S) == CHOOSE t \in S : \A u \in S : t >= u

\* C18: after the rows of one region's forecast are stored, the lookup of
\* each key written returns the cloud cover of the last row written for it
\* (the same as before when that value was already there), its entry carries
\* the time of this store, and every other key holds what it held before.
C18_UpsertLastWriteWins ==
    [][rlog'.step = "updated" =>
          \A r \in StoreRegionIds, h \in DataHours :
              LET written == WrittenFor(rlog'.forecasts, rlog'.stored, h)
              IN  IF r = rlog'.region_id /\ written # {}
                  THEN /\ CloudIn(weather_cache_table', r, h) =
                             rlog'.forecasts[MaxOf(written)].cloud_cover_percent
                       /\ Val(weather_cache_table'[r][h]).fetched_at = now
                  ELSE weather_cache_table'[r][h] = weather_cache_table[r][h]]_vars

\* A payload naming hour 0 twice was stored over rows of an earlier cycle:
\* the second value is the one looked up, the row of hour 1 is as it was.
C18_Witness ==
    /\ rlog.step = "updated"
    /\ rlog.stored = 2
    /\ rlog.forecasts[1].forecast_time = rlog.forecasts[2].forecast_time
    /\ CloudIn(weather_cache_table, rlog.region_id, 0) = Some(CLOUD_COVER_THRESHOLD)
    /\ weather_cache_table[rlog.region_id][1] = OldRow(5, 10)

\* A row fetched more than the retention before the current time.
OlderThanRetention(row) ==
    row # None /\ now - Val(row).fetched_at > Hours(RETENTION_HOURS)

AllProcessed(job) ==
    \A k \in 1 .. Len(job.regions) : job.regions[k].region_id \in DOMAIN job.results

\* C20: the purge of a cycle runs only once every enumerated region has been
\* processed; a job that has processed its last region goes on to the purge,
\* and from there takes no step but the purge, which ends it.
C20_PurgeAfterAllRegions ==
    [][\A j \in Slots :
          /\ (rlog'.step = "cleanup" /\ rlog'.slot = j /\ jobs'[j] # jobs[j]) =>
                (jobs[j].pc = "purge" /\ AllProcessed(jobs[j]))
          /\ (jobs[j].pc = "regions" /\ jobs'[j] # jobs[j] /\ AllProcessed(jobs'[j])
                /\ jobs'[j].pc # "idle") =>
                jobs'[j].pc = "purge"
          /\ (jobs[j].pc = "purge" /\ jobs'[j] # jobs[j]) =>
                (rlog'.step = "cleanup" /\ jobs'[j] = IdleJob)]_vars

\* The second cycle purged after storing fresh rows for both of its regions.
C20_Witness ==
    /\ rlog.step = "cleanup"
    /\ fired = 2
    /\ Cardinality({r \in StoreRegionIds :
                      /\ weather_cache_table[r][0] # None
                      /\ Val(weather_cache_table[r][0]).fetched_at = now}) = 2

-----------------------------------------------------------------------------
(* The sunshine gate: replacement, helper, atomicity, frame *)

\* The step in which caller c's station request completes with a usable
\* payload.
SucceededCompletion(c) ==
    /\ pc[c] = "fetching"
    /\ pc'[c] = "idle"
    /\ gate_ret'.resp # None
    /\ ~FetchFails(Val(gate_ret'.resp))

\* What a usable payload reports: the whole seconds of sunshine, 0 for a
\* null.
ReportedSeconds(resp) ==
    IF resp.so_data[1] = None THEN 0 ELSE Val(resp.so_data[1]) \div 10

\* C27: when the station request of a call succeeds, forced or not and
\* whatever was cached before, the cache holds the snapshot built from the
\* payload, the cache time is the time of the fetch, and the call returns
\* that snapshot with cache_hit = false.
C27_SuccessReplacesCache ==
    [][\A c \in Callers :
          SucceededCompletion(c) =>
              LET resp == Val(gate_ret'.resp)
                  new_snapshot ==
                      WeatherStatus(ReportedSeconds(resp) > 0,
                                    ReportedSeconds(resp), now)
              IN  /\ weather_cache' = Some(new_snapshot)
                  /\ cache_time' = Some(now)
                  /\ gate_ret' = Returned(c, Some(new_snapshot), FALSE,
                                          Some(resp))]_vars

\* A fetch completed at minute 10 with zero seconds of sunshine: the cache
\* holds the overcast snapshot of that minute.
C27_Witness ==
    /\ gate_ret.kind = "returned"
    /\ ~gate_ret.cache_hit
    /\ gate_ret.resp = Some(StationResponse(FALSE, 200, TRUE, <<Some(0)>>))
    /\ weather_cache = Some(WeatherStatus(FALSE, 0, 10))
    /\ cache_time = Some(10)
    /\ now = 10

\* C28: is_sunny() raises on no outcome of its get_current_weather call: it
\* returns the flag of the snapshot the call yields, False when the call
\* raises, and True only for a snapshot that reports sunshine.
C28_IsSunnyNeverRaises ==
    gate_ret.kind \in {"returned", "raised"} =>
        /\ ~is_sunny(gate_ret).raised
        /\ gate_ret.kind = "returned" =>
               is_sunny(gate_ret).val = Val(gate_ret.snapshot).is_sunny
        /\ gate_ret.kind = "raised" => is_sunny(gate_ret).val = FALSE
        /\ is_sunny(gate_ret).val = TRUE =>
               /\ gate_ret.snapshot # None
               /\ Val(gate_ret.snapshot).sunshine_seconds > 0

\* The station request failed with nothing cached: the call raised and the
\* helper says False.
C28_Witness ==
    /\ gate_ret.kind = "raised"
    /\ weather_cache = None
    /\ is_sunny(gate_ret) = Ok(FALSE)

\* C29: in every state a caller can observe, the cached snapshot and the
\* cache time are both absent or both present, and the cache time is that of
\* the fetch that produced the snapshot.
C29_CacheReplacedAtomically ==
    /\ weather_cache = None <=> cache_time = None
    /\ weather_cache # None =>
           Val(weather_cache).cached_at = Val(cache_time)

\* Two requests were in flight together; one has completed and stored its
\* snapshot at minute 5, the other is still awaiting the station.
C29_Witness ==
    /\ weather_cache = Some(WeatherStatus(TRUE, 300, 5))
    /\ cache_time = Some(5)
    /\ now = 5
    /\ gate_ret.kind = "returned"
    /\ ~gate_ret.cache_hit
    /\ \E c \in Callers : pc[c] = "fetching"

\* The step in which caller c's call ends without a usable payload: the
\* station request failed or timed out, or the call was cancelled.
FailedOrCancelled(c) ==
    \/ FailedCompletion(c)
    \/ /\ pc[c] = "fetching"
       /\ pc'[c] = "idle"
       /\ gate_ret'.kind = "cancelled"

\* C30: a call whose station request fails, times out or is cancelled
\* leaves the cached snapshot and the cache time as they were.
C30_FailureLeavesCache ==
    [][\A c \in Callers :
          FailedOrCancelled(c) =>
              /\ weather_cache' = weather_cache
              /\ cache_time' = cache_time]_vars

\* A call cancelled while a snapshot is cached.
C30_Witness ==
    /\ gate_ret.kind = "cancelled"
    /\ weather_cache # None
    /\ cache_time # None

-----------------------------------------------------------------------------
(* The resolver: remaining minutes, the resolved tick, gaps, the horizon *)

\* Seconds from the current time to the timestamp t (whole minutes).
SecondsUntil(t) == (t - now) * 60 - now_second

\* The results of the last request, single or batch.
LastResults == {last.out[b] : b \in DOMAIN last.out}

\* C23: in the result of either function, remaining_minutes accompanies
\* changes_at and is the time from now to changes_at in whole minutes,
\* rounded down; it is none, never a negative number, when changes_at lies
\* before now.
C23_RemainingMinutesFloor ==
    (last.op \in {"single", "batch"}) =>
        \A r \in LastResults :
            /\ r.changes_at = None => r.remaining_minutes = None
            /\ r.changes_at # None =>
                   LET d == SecondsUntil(Val(r.changes_at))
                   IN  IF d < 0 THEN r.remaining_minutes = None
                       ELSE /\ r.remaining_minutes # None
                            /\ Val(r.remaining_minutes) * 60 <= d
                            /\ d < (Val(r.remaining_minutes) + 1) * 60

\* A batch request at 00:10:30 with the flip at 01:00: 49 minutes and 30
\* seconds remain, reported as 49.
C23_Witness ==
    /\ last.op = "batch"
    /\ now = 10
    /\ now_second = 30
    /\ 1 \in DOMAIN last.out
    /\ last.out[1].changes_at = Some(Hours(1))
    /\ last.out[1].remaining_minutes = Some(49)

\* C24 (as claimed): the tick at which a request looks up the site's
\* geometric exposure is now floored to the 10-minute grid: it is never
\* later than now and lies less than one grid step before now.
C24_TickIsNowFloored ==
    SingleDone =>
        LET rounded_time == round_to_hour(now)
        IN  /\ rounded_time = round_to_10min(now)
            /\ rounded_time <= now
            /\ now - rounded_time < GridStepMinutes

\* The benches of the catalog the last request resolved to a status.
Resolved ==
    {b \in (DOMAIN last.out) \cap BenchIds : last.out[b].status # "unknown"}

\* Ticks of the horizon before t.
TicksBefore(t) == {u \in HorizonTicks : u < t}

\* C25: a tick of the scan without a geometric entry is passed over: in a
\* request none of whose lookups fails, when every tick of the horizon
\* before a confirmed flip lacks geometric data, however many they are,
\* changes_at is that flip.
C25_GapsAreSkipped ==
    (last.op \in {"single", "batch"} /\ last.fail = NoFail) =>
        \A b \in Resolved :
            LET cur == last.out[b].status = "sunny"
            IN  \A t \in ConfirmedFlipTicks(b, cur) :
                    (\A u \in TicksBefore(t) : ~GeoPresent(b, u)) =>
                        last.out[b].changes_at = Some(t)

\* A request at 00:10: no geometric data from 01:00 to 46:00, the confirmed
\* flip at 47:00 is returned.
C25_Witness ==
    /\ SingleDone
    /\ SingleId = 1
    /\ now = 10
    /\ SingleOut.status # "unknown"
    /\ Cardinality(TicksBefore(Hours(SEARCH_HOURS - 1))) = SEARCH_HOURS - 2
    /\ \A u \in TicksBefore(Hours(SEARCH_HOURS - 1)) : ~GeoPresent(1, u)
    /\ Hours(SEARCH_HOURS - 1) \in ConfirmedFlipTicks(1, SingleOut.status = "sunny")
    /\ SingleOut.changes_at = Some(Hours(SEARCH_HOURS - 1))

\* Ticks of the horizon the scan records as fallback candidates under the
\* status cur: geometric data present, no forecast entry, and the geometry
\* alone speaking for the current status.
CandidateTicks(bench_id, cur) ==
    {t \in HorizonTicks :
        /\ GeoPresent(bench_id, t)
        /\ ~ForecastPresent(bench_id, t)
        /\ GeoExposed(bench_id, t) = cur}

\* C26: in a request none of whose lookups fails, the scan covers at most 48
\* hourly ticks; a changes_at it returns is one of them, strictly after the
\* resolved tick and strictly before now + 48 h; when none of them has a differing combined result and none
\* is a fallback candidate, changes_at is none.
C26_ScanBounded ==
    (last.op \in {"single", "batch"} /\ last.fail = NoFail) =>
        /\ Cardinality(HorizonTicks) <= SEARCH_HOURS
        /\ \A b \in Resolved :
              LET cur == last.out[b].status = "sunny"
                  changes_at == last.out[b].changes_at
              IN  /\ changes_at # None =>
                         /\ Val(changes_at) \in HorizonTicks
                         /\ Val(changes_at) > CurrentTick
                         /\ SecondsUntil(Val(changes_at)) < Hours(SEARCH_HOURS) * 60
                  /\ ( /\ FlipTicks(b, cur) = {}
                       /\ CandidateTicks(b, cur) = {} )
                     => changes_at = None

\* A request at 00:10 whose only flip lies at 49:00, past the window: all 48
\* ticks are passed and changes_at is none.
C26_Witness ==
    /\ SingleDone
    /\ SingleId = 1
    /\ now = 10
    /\ SingleOut.status # "unknown"
    /\ Cardinality(HorizonTicks) = SEARCH_HOURS
    /\ FlipTicks(1, SingleOut.status = "sunny") = {}
    /\ CandidateTicks(1, SingleOut.status = "sunny") = {}
    /\ GeoPresent(1, Hours(SEARCH_HOURS + 1))
    /\ Combined(1, Hours(SEARCH_HOURS + 1)) # (SingleOut.status = "sunny")
    /\ SingleOut.changes_at = None

-----------------------------------------------------------------------------
(* The forecast cache readers *)

\* The cloud cover stored for the region of (lat, lon) at hour h, if any.
CoverAt(lat, lon, h) ==
    LET row == ForecastRow(get_region_id(lat, lon), Hours(h))
    IN  IF row = None THEN None ELSE Val(row).cloud_cover_percent

\* Hour h qualifies for the last call: strictly after from_time, before
\* from_time + max_hours, with a cloud cover strictly below the threshold.
Qualifies(h) ==
    /\ CoverAt(last.lat, last.lon, h) # None
    /\ Val(CoverAt(last.lat, last.lon, h)) < CLOUD_COVER_THRESHOLD
    /\ SecondsUntil(Hours(h)) > 0
    /\ SecondsUntil(Hours(h)) < last.max_hours * 3600

\* C21: when the database answers, get_next_sunny_time returns a qualifying
\* tick before which no tick qualifies, and none exactly when no tick
\* qualifies.
C21_NextSunnyIsEarliest ==
    (last.op = "next_sunny" /\ last.fail = NoFail) =>
        LET result == last.out.val
        IN  /\ result # None =>
                   /\ Val(result) % 60 = 0
                   /\ Qualifies(Val(result) \div 60)
                   /\ \A h \in DataHours :
                         Qualifies(h) => Hours(h) >= Val(result)
            /\ result = None => \A h \in DataHours : ~Qualifies(h)

\* Asked at 00:00:00 with clear rows at 00:00 and 02:00 and a row at the
\* threshold at 01:00: the answer is 02:00.
C21_Witness ==
    /\ last.op = "next_sunny"
    /\ last.fail = NoFail
    /\ now = 0
    /\ now_second = 0
    /\ last.max_hours = SEARCH_HOURS
    /\ CoverAt(last.lat, last.lon, 0) = Some(5)
    /\ CoverAt(last.lat, last.lon, 1) = Some(CLOUD_COVER_THRESHOLD)
    /\ CoverAt(last.lat, last.lon, 2) = Some(5)
    /\ last.out.val = Some(Hours(2))

\* C22 (as claimed): a database error inside a reader of the forecast cache
\* reaches the caller as an error, not as a normal result.
C22_StorageErrorPropagates ==
    (last.op \in {"next_sunny", "is_sunny_at"} /\ last.fail = ForecastFail) =>
        last.out.raised

-----------------------------------------------------------------------------
(* The sunshine gate: what the caller is told about staleness *)

\* What a caller receives from get_current_weather: whether it returned, the
\* snapshot and the cache_hit flag (WeatherResponse carries no other field).
CallerView(ret) == <<ret.kind, ret.snapshot, ret.cache_hit>>

\* C31 (as claimed): what a caller receives when the snapshot is served
\* because the station request failed differs from what a cache hit on the
\* same snapshot delivers.
C31_StaleIsMarked ==
    [][\A c \in Callers :
          (FailedCompletion(c) /\ weather_cache # None) =>
              CallerView(gate_ret') #
                  CallerView(Returned(c, weather_cache, TRUE, None))]_vars

-----------------------------------------------------------------------------
(* The endpoint of one site *)

\* C32: a request for an id that is not in the catalog, the catalog lookup
\* answering, gets 404 and no status, whatever else would fail.
C32_UnknownIdIsNotFound ==
    ( /\ last.op = "get_bench"
      /\ ~InCatalog(last.ids[1])
      /\ last.fail.kind # "catalog" ) =>
        /\ last.out.http = 404
        /\ last.out.current_status = None
        /\ last.out.sun_until = None
        /\ last.out.remaining_minutes = None

\* Id 3 is not in the catalog: answered 404.
C32_Witness ==
    /\ last.op = "get_bench"
    /\ last.ids = <<3>>
    /\ last.fail = NoFail
    /\ last.out = HttpError(404)

-----------------------------------------------------------------------------
(* The resolver: failures, round trips, frame, candidates, key set *)

\* The results a resolution can deliver.
StatusNames == {"sunny", "shady", "unknown"}

\* The lookup that fails is one the request makes: the catalog lookup of the
\* site, the geometric lookup at the resolved tick, or the geometric lookup
\* at the first tick of the scan.
FailureIsMet ==
    \/ last.fail.kind = "catalog" /\ last.fail.bench = SingleId
    \/ /\ last.fail.kind = "geo"
       /\ last.fail.bench = SingleId
       /\ \/ last.fail.tick = CurrentTick
          \/ /\ last.fail.tick = CurrentTick + Hours(1)
             /\ GeoPresent(SingleId, CurrentTick)

\* C33: get_bench_sun_status always returns a triple; when the catalog
\* lookup, the geometric lookup at the resolved tick or a geometric lookup
\* of the scan raises, the triple is (unknown, none, none).
C33_SingleNeverRaises ==
    SingleDone =>
        /\ SingleOut.status \in StatusNames
        /\ FailureIsMet => SingleOut = Unknown

\* The geometric lookup of the first tick of the scan raises after the
\* current status had been resolved.
C33_Witness ==
    /\ SingleDone
    /\ last.fail.kind = "geo"
    /\ last.fail.tick = CurrentTick + Hours(1)
    /\ GeoPresent(SingleId, CurrentTick)
    /\ ForecastPresent(SingleId, CurrentTick)
    /\ SingleOut = Unknown

\* C34 (as claimed): a batch request makes at most one round trip to the
\* geometric store, the batch query included, and no catalog lookup per
\* site, however many ids it carries.
C34_OneRoundTripPerBatch ==
    last.op = "batch" =>
        LET trips == BatchTrips(last.ids, now, last.fail)
        IN  /\ trips.batch + trips.geo <= 1
            /\ trips.catalog = 0

\* The state resolutions share with the gate and the refresher.
shared_vars ==
    <<weather_cache, cache_time, weather_cache_table, exposure, pc, gate_ret,
      jobs, fired, rlog>>

\* C35: a resolution, single or batch, failing or not, leaves the gate's
\* snapshot and cache time and every forecast cache entry as they were and
\* starts neither a station request nor a refresh cycle.
C35_ResolutionOnlyReads ==
    [][(last'.op \in {"single", "batch"}) => UNCHANGED shared_vars]_vars

\* A batch resolved while the gate holds a snapshot and the forecast cache
\* holds entries: nobody is fetching, no cycle has run.
C35_Witness ==
    /\ last.op = "batch"
    /\ last.ids = <<1, 2>>
    /\ last.out[1].status = "sunny"
    /\ weather_cache # None
    /\ ForecastPresent(1, CurrentTick)
    /\ \A c \in Callers : pc[c] = "idle"
    /\ RefresherIdle

-----------------------------------------------------------------------------
(* The station request *)

\* The last call's station request came back with resp.
Fetched(resp) == gate_ret.kind # "none" /\ gate_ret.resp = Some(resp)

\* C36: a 200 payload with features and a non-empty SO data array yields a
\* snapshot from this fetch whose seconds are the reading's whole seconds (0
\* for null) and whose is_sunny flag says exactly that they are positive;
\* any other response (timeout, status other than 200, no features, empty
\* data array) yields no snapshot from this fetch: the call raises or falls
\* back on the cached one.
C36_SunnyIffPositiveSeconds ==
    \A resp \in StationResponses :
        Fetched(resp) =>
            IF /\ ~resp.timeout /\ resp.status = 200
               /\ resp.features /\ resp.so_data # <<>>
            THEN /\ gate_ret.kind = "returned"
                 /\ ~gate_ret.cache_hit
                 /\ Val(gate_ret.snapshot).sunshine_seconds =
                        ReportedSeconds(resp)
                 /\ Val(gate_ret.snapshot).is_sunny <=>
                        (ReportedSeconds(resp) > 0)
                 /\ resp.so_data[1] = None =>
                        ~Val(gate_ret.snapshot).is_sunny
            ELSE \/ gate_ret.kind = "raised"
                 \/ gate_ret.kind = "returned" /\ gate_ret.cache_hit

\* A null reading: zero seconds, not sunny.
C36_Witness ==
    /\ Fetched(StationResponse(FALSE, 200, TRUE, <<None>>))
    /\ gate_ret.kind = "returned"
    /\ gate_ret.snapshot = Some(WeatherStatus(FALSE, 0, now))

-----------------------------------------------------------------------------
(* The resolver: where a shady site may turn sunny *)

\* C37 (as claimed): when a site resolves to shady, a changes_at it is
\* given, confirmed or fallback, is a tick at which the site is
\* geometrically exposed.
C37_ShadyChangesWhereExposed ==
    ( /\ SingleClean
      /\ SingleOut.status = "shady"
      /\ SingleOut.changes_at # None ) =>
        GeoExposed(SingleId, Val(SingleOut.changes_at))

-----------------------------------------------------------------------------
(* The batch resolver: the keys of the result *)

\* A failure the batch request runs into: the batch query itself, or the
\* catalog lookup of a bench the query returned with exposure data.
BatchFailureIsMet ==
    \/ last.fail.kind = "batch"
    \/ /\ last.fail.kind = "catalog"
       /\ GeoPresent(last.fail.bench, CurrentTick)

\* C38: the map a batch request returns has exactly the requested ids as
\* keys; an id that is not in the catalog, or has no geometric entry at the
\* resolved tick, maps to (unknown, none, none); when the request runs into
\* an exception every id does; an empty list gives an empty map.
C38_BatchKeysAreRequestedIds ==
    last.op = "batch" =>
        /\ DOMAIN last.out = SeqRange(last.ids)
        /\ \A b \in SeqRange(last.ids) :
              /\ last.out[b].status \in StatusNames
              /\ ~InCatalog(b) => last.out[b] = Unknown
              /\ ~GeoPresent(b, CurrentTick) => last.out[b] = Unknown
              /\ BatchFailureIsMet => last.out[b] = Unknown
        /\ last.ids = <<>> => last.out = <<>>

\* A request for ids 3 and 1: id 3 is not in the catalog and maps to
\* unknown next to the resolved bench 1.
C38_Witness ==
    /\ last.op = "batch"
    /\ last.ids = <<3, 1>>
    /\ last.fail = NoFail
    /\ DOMAIN last.out = {1, 3}
    /\ last.out[3] = Unknown
    /\ last.out[1].status = "sunny"

-----------------------------------------------------------------------------
(* The single resolver: how far ahead the reported change lies *)

\* C39: a change time a single request reports is more than 30 minutes
\* after now; the remaining minutes are then given and at least 30, so the
\* result never comes from the branch that drops a negative value.
C39_ChangeMoreThanHalfHourAhead ==
    last.op = "single" =>
        \A r \in LastResults :
            r.changes_at # None =>
                /\ SecondsUntil(Val(r.changes_at)) > 30 * 60
                /\ Val(r.changes_at) >= CurrentTick + Hours(1)
                /\ r.remaining_minutes # None
                /\ Val(r.remaining_minutes) >= 30

\* Asked at 00:29:30, with the tick 00:00, the change is reported for 01:00:
\* 30 minutes and 30 seconds ahead, 30 remaining minutes.
C39_Witness ==
    /\ last.op = "single"
    /\ now = 29
    /\ now_second = 30
    /\ \E r \in LastResults :
          /\ r.changes_at = Some(Hours(1))
          /\ r.remaining_minutes = Some(30)

-----------------------------------------------------------------------------
(* The sunshine gate: the cache time across a stale fallback *)

\* A snapshot is cached and its age has reached the TTL.
PastTTL ==
    /\ weather_cache # None
    /\ cache_time # None
    /\ CacheAgeSeconds >= weather_cache_ttl

\* A snapshot is cached and its age is below the TTL.
WithinTTL ==
    /\ weather_cache # None
    /\ cache_time # None
    /\ CacheAgeSeconds < weather_cache_ttl

\* C40: a failed station request on an expired cache leaves the cache time
\* alone, so the cache stays expired; it stays expired until a station
\* request succeeds, and while it is expired every call that is not forced
\* starts a station request.  A success sets the cache time to the current
\* time, and while the age is below the TTL a call that is not forced
\* returns the cached snapshot as a hit and starts no station request.
C40_StaleFallbackKeepsExpired ==
    [][/\ \A c \in Callers :
             (FailedCompletion(c) /\ PastTTL) =>
                 (cache_time' = cache_time /\ PastTTL')
       /\ (PastTTL /\ ~PastTTL') => \E c \in Callers : SucceededCompletion(c)
       /\ \A c \in Callers :
             (GetCurrentWeather(c, FALSE) /\ PastTTL) =>
                 (pc'[c] = "fetching" /\ gate_ret' = gate_ret)
       /\ \A c \in Callers :
             SucceededCompletion(c) => (cache_time' = Some(now) /\ WithinTTL')
       /\ \A c \in Callers :
             (GetCurrentWeather(c, FALSE) /\ WithinTTL) =>
                 /\ gate_ret' = Returned(c, weather_cache, TRUE, None)
                 /\ pc' = pc]_vars

\* Ten minutes after the fetch at 00:00 a station request has failed with
\* status 500: the caller holds the stale snapshot, the cache time is still
\* 00:00 and the cache is expired.
C40_Witness ==
    /\ now = 10
    /\ cache_time = Some(0)
    /\ PastTTL
    /\ gate_ret.kind = "returned"
    /\ gate_ret.cache_hit
    /\ gate_ret.snapshot = weather_cache
    /\ gate_ret.resp = Some(StationResponse(FALSE, 500, FALSE, <<>>))
    /\ \A c \in Callers : pc[c] = "idle"

====
